---- MODULE Spec2Model ----
(***************************************************************************)
(* State-machine model of superCron's synchronisation pipeline:            *)
(*   - the ESL label synchroniser (server/tasks/EtiquetteController.py),   *)
(*   - the inventory reconciliation (server/tasks/RapportDiffInv.py),      *)
(*   - the unknown-location resolver (server/tasks/UpdateUnknownInv.py).   *)
(* Each component has its own specification over the shared variables:     *)
(*   SpecSync      one call of post_data_with_retry                        *)
(*   SpecJob       one run of read_and_store_files                         *)
(*   SpecDiff      the diff of compare_inventory on arbitrary count maps   *)
(*   SpecRecon     one run of check_all_stores                             *)
(*   SpecResolver  one run of phase 1 of the resolver                      *)
(*   SpecUnknown   two runs of update_unknown_locations                    *)
(* and the table handler (server/controller/csv.py) has                    *)
(*   SpecCsv       one CSVHandler and the operations called on it          *)
(* and the functions that prepare a payload (convert_keys, clean_data,     *)
(* merge_price_data, process_batch) are applied to arbitrary records in    *)
(*   SpecPrepare   one application of one of these functions               *)
(* and the manual triggers (server/main.py) have                           *)
(*   SpecTrigger   one request to one of the endpoints                     *)
(***************************************************************************)
EXTENDS Integers, Sequences, FiniteSets, TLC

(***************************************************************************)
(* Program constants and model bounds                                      *)
(***************************************************************************)
\* EtiquetteController.BATCH_SIZE
BATCH_SIZE == 1000
\* EtiquetteController.DELAY_BETWEEN_BATCHES (seconds)
DELAY_BETWEEN_BATCHES == 1
\* default of the max_retries parameter
MAX_RETRIES == 3
\* default of the initial_delay parameter (seconds)
INITIAL_DELAY == 5
\* largest record set handed to post_data_with_retry
MaxRecords == 2500
\* number of stores in the registry of the reconciliation
NumStores == 2
\* largest count of one item in the maps handed to the diff
MaxCount == 2
\* number of rows of the locations table in the resolver runs
NumLocs == 3

VARIABLES
  \* ---- label synchroniser: post_data_with_retry -----------------------
  pc,               \* position of the label-sync control flow
  caller,           \* who called post_data_with_retry: "direct" or "job"
  include_price,    \* EtiquetteController.include_price
  max_retries,      \* parameter of post_data_with_retry
  initial_delay,    \* parameter of post_data_with_retry
  session_data,     \* parameter of post_data_with_retry: [kind, val]
  store_id,         \* parameter of post_data_with_retry
  batches,          \* local of post_data_with_retry
  i,                \* 1-based number of the batch being processed
  overall_success,  \* local of post_data_with_retry
  call,             \* 0: no send yet, 1: first _send_batch_to_api, 2: second
  attempt,          \* loop variable of _send_batch_to_api
  delay,            \* local delay of _send_batch_to_api
  success,          \* value returned by the last _send_batch_to_api
  response,         \* response of the last submission attempt
  result,           \* <<value>> returned by post_data_with_retry (<<>> before)
  events,           \* history of the current call: submissions and outcomes
  price_out,        \* how the price query of the current batch ended
  timeline,         \* history: price queries, attempts and waits, in order
  \* ---- label synchroniser: read_and_store_files -----------------------
  ftp,              \* "none", "open" or "closed"
  fileIdx,          \* number of files taken from FILES_CONFIG so far
  rAttempt,         \* loop variable of process_csv_with_retry
  rDelay,           \* local delay of process_csv_with_retry
  errors,           \* the errors list
  raised,           \* what read_and_store_files raised ("none" before)
  fileLog,          \* history of the run: one entry per file taken
  submittedStores,  \* store codes of the payloads submitted during the run
  scratch,          \* the scratch files temp_<file> that exist
  \* ---- database -------------------------------------------------------
  locations,        \* the locations table, in id order
  inventory,        \* the rows of the inventory (catalog) table
  \* ---- reconciliation: check_all_stores -------------------------------
  rpc,              \* position of the reconciliation control flow
  storeIdx,         \* number of stores taken from the registry so far
  db_quantities,    \* local of compare_inventory
  csv_quantities,   \* local of compare_inventory
  comparisons,      \* value returned by compare_inventory
  disk,             \* the temporary files that exist
  snapshot,         \* rows of the downloaded snapshot file
  ftp_client,       \* "closed" or "open": InventoryChecker.ftp_client
  emails,           \* the emails handed to the email service
  steps,            \* history of the run: the steps taken, per store
  \* ---- resolver: _update_locations_from_inventory ---------------------
  resolver_pc,      \* position of the resolver control flow
  locations0,       \* the locations table when the run started
  upc_to_item,      \* local of _update_locations_from_inventory
  pending,          \* codes of upc_to_item not yet iterated
  total_updated,    \* local of _update_locations_from_inventory
  returned,         \* value returned by phase 1 ("none" before)
  \* ---- resolver: update_unknown_locations ----------------------------
  remaining,        \* remaining_locations: the rows phase 2 returned
  reports,          \* the reports handed to the email service
  phases,           \* history of the current run: the phases that ended
  rerun,            \* FALSE in the first run, TRUE in the run after it
  first_run,        \* how the first run ended and the table it left
  \* ---- CSVHandler -----------------------------------------------------
  headers,          \* CSVHandler.headers (<<>> stands for None and for [])
  data,             \* CSVHandler.data: the rows, each a dictionary
  file_exists,      \* CSVHandler.file_exists
  file,             \* the file named CSVHandler.filename
  last,             \* history: the last operation, its input and outcome
  \* ---- label synchroniser: the functions that prepare a payload -------
  applied,          \* a function, the arguments it got and what it gave
  \* ---- manual triggers ------------------------------------------------
  http,             \* one request: the endpoint, its job, the answer
  \* ---- location export: export_store ----------------------------------
  exportRun,        \* one run: position, store, export files, SFTP client
  \* ---- two runs of the resolver on one table --------------------------
  pairRuns          \* the table, the catalog, each run's locals, history

paramVars == <<caller, include_price, max_retries, initial_delay,
               session_data, store_id>>
loopVars  == <<batches, i, overall_success>>
sendVars  == <<call, attempt, delay, success, response>>
syncVars  == <<pc, paramVars, loopVars, sendVars, result, events, price_out,
               timeline>>
jobVars   == <<ftp, fileIdx, rAttempt, rDelay, errors, raised, fileLog,
               submittedStores, scratch>>
dbVars    == <<locations, inventory>>
reconVars == <<rpc, storeIdx, db_quantities, csv_quantities, comparisons,
               disk, snapshot, ftp_client, emails, steps>>
resolverVars == <<resolver_pc, locations0, upc_to_item, pending,
                  total_updated, returned>>
reportVars == <<remaining, reports, phases, rerun, first_run>>
csvVars   == <<headers, data, file_exists, file, last>>
vars      == <<syncVars, jobVars, dbVars, reconVars, resolverVars,
               reportVars, csvVars, applied, http, exportRun, pairRuns>>

\* what the label synchroniser leaves alone
notLabel  == <<dbVars, reconVars, resolverVars, reportVars, csvVars,
               applied, http, exportRun, pairRuns>>

(***************************************************************************)
(* Helpers                                                                 *)
(***************************************************************************)
Range(s) == {s[k] : k \in DOMAIN s}

Min(a, b) == IF a <= b THEN a ELSE b

Ceil(n, b) == (n + b - 1) \div b

Last(s) == s[Len(s)]

Front(s) == SubSeq(s, 1, Len(s) - 1)

RECURSIVE Concat(_)
Concat(ss) == IF ss = <<>> THEN <<>> ELSE Head(ss) \o Concat(Tail(ss))

\* the records 1..n in source order, each named by its position
Records(n) == [k \in 1..n |-> k]

\* the sequences that list every element of S once
Orders(S) ==
  {o \in [1..Cardinality(S) -> S] : \A x \in S : \E k \in DOMAIN o : o[k] = x}

\* dictionaries: functions on their key set
EmptyMap == [k \in {} |-> 0]

Get(m, k, d) == IF k \in DOMAIN m THEN m[k] ELSE d

Put(m, k, v) == [x \in DOMAIN m \cup {k} |-> IF x = k THEN v ELSE m[x]]

\* a list of n label rows as csv.DictReader yields them; surplus gives,
\* for the rows that have fields beyond the header, the number of those
\* fields (DictReader keeps them as a list under the key None); nosep is
\* the set of the rows whose part number has no blank in it
LabelRows(n, surplus) ==
  [kind |-> "list", val |-> Records(n), surplus |-> surplus, nosep |-> {}]

\* the same rows, those of S having a part number without a blank
WithoutSeparator(rows, S) == [rows EXCEPT !.nosep = S]

\* a single record handed over as a dictionary
LabelDict == [kind |-> "dict", val |-> 1, surplus |-> EmptyMap, nosep |-> {}]

(***************************************************************************)
(* EtiquetteController: batching and submission                            *)
(***************************************************************************)
\* FILES_CONFIG in insertion order (the iteration order of .items())
FILES_CONFIG ==
  << [file |-> "PRIXETIQUETTECHATEAUGUAY.csv", store_id |-> "0003"],
     [file |-> "PRIXETIQUETTEST-HUBERT.csv",   store_id |-> "0001"],
     [file |-> "PRIXETIQUETTEST-JEAN.csv",     store_id |-> "0002"] >>

\* parts[start:start + batch_size], start counted from 0
Slice(parts, start, batch_size) ==
  SubSeq(parts, start + 1, Min(start + batch_size, Len(parts)))

\* the slices for start, start + batch_size, ... below len(parts)
RECURSIVE slices_from(_, _, _)
slices_from(parts, start, batch_size) ==
  IF start >= Len(parts) THEN <<>>
  ELSE <<Slice(parts, start, batch_size)>>
       \o slices_from(parts, start + batch_size, batch_size)

\* a faulty batch_parts_list that keeps the full batches only
batch_parts_list_full(parts, batch_size) ==
  [b \in 1..(Len(parts) \div batch_size) |->
     Slice(parts, (b - 1) * batch_size, batch_size)]

\* [parts[i:i + batch_size] for i in range(0, len(parts), batch_size)]
batch_parts_list(parts, batch_size) == slices_from(parts, 0, batch_size)

\* isinstance(session_data, dict) -> [session_data], else session_data
data_to_process(sd) == IF sd.kind = "dict" THEN <<sd.val>> ELSE sd.val

\* What one session.post can produce: a transport failure (an exception of
\* the client), the timeout of 30 seconds (line 334), which raises too, or
\* a response with a status and a body; the body is a JSON
\* object with error_code 0, with another error_code, without error_code,
\* a JSON value that is no object, or text that response.json() rejects.
Bodies == {"dict_ec0", "dict_ec1", "dict_noec", "list", "malformed"}

Responses ==
  {[transport |-> "failed", status |-> 0, body |-> "none"],
   [transport |-> "timeout", status |-> 0, body |-> "none"]}
  \cup [transport : {"ok"}, status : {200, 500}, body : Bodies]

NoResponse == [transport |-> "none", status |-> 0, body |-> "none"]

\* isinstance(result, dict)
IsDict(body) == body \in {"dict_ec0", "dict_ec1", "dict_noec"}

\* a faulty Accepted that does not look at the transport status
AcceptedAnyStatus(r) ==
  /\ r.transport = "ok"
  /\ IsDict(r.body)
  /\ r.body = "dict_ec0"

\* response.status == 200 and isinstance(result, dict) and
\* result.get('error_code') == 0; a failed transport, or a body that
\* response.json() rejects, raises before the test is reached
Accepted(r) ==
  /\ r.transport = "ok"
  /\ r.body # "malformed"
  /\ r.status = 200
  /\ IsDict(r.body)
  /\ r.body = "dict_ec0"

Submit(b, ok) == [t |-> "submit", batch |-> b, ok |-> ok]
Final(b, ok)  == [t |-> "final",  batch |-> b, ok |-> ok]

\* the entries of the timeline: the price query of a batch and whether it
\* gave prices, a submission attempt of a batch, a retrieval attempt of a
\* file, and a wait of some seconds, with the line of the sleep
Asked(b, ok) == [t |-> "price", batch |-> b, ok |-> ok]
Try(b, c, a) == [t |-> "try", batch |-> b, call |-> c, attempt |-> a]
Fetch(a)     == [t |-> "fetch", batch |-> 0, attempt |-> a]
Slept(b, seconds, line) ==
  [t |-> "sleep", batch |-> b, seconds |-> seconds, line |-> line]

\* lines 270-279: entry of post_data_with_retry
PostStart ==
  /\ pc = "post_start"
  /\ batches' = batch_parts_list(data_to_process(session_data), BATCH_SIZE)
  /\ overall_success' = TRUE
  /\ i' = 0
  /\ call' = 0
  /\ attempt' = 0
  /\ delay' = initial_delay
  /\ success' = FALSE
  /\ response' = NoResponse
  /\ result' = <<>>
  /\ events' = <<>>
  /\ price_out' = "none"
  /\ pc' = "batch_loop"
  /\ UNCHANGED <<paramVars, timeline, jobVars, notLabel>>

\* for i, batch in enumerate(batches, 1): the number of the next batch,
\* 0 when the loop is over; the loop does not look at overall_success
NextBatchIndex(n, k, ok) == IF k < n THEN k + 1 ELSE 0

\* line 281: the for loop takes the next batch, or ends
NextBatch ==
  /\ pc = "batch_loop"
  /\ LET nxt == NextBatchIndex(Len(batches), i, overall_success)
     IN IF nxt # 0
          THEN /\ i' = nxt
               /\ pc' = "process_batch"
          ELSE /\ i' = i
               /\ pc' = "post_return"
  /\ price_out' = "none"
  /\ UNCHANGED <<paramVars, batches, overall_success, sendVars, result,
                 events, timeline, jobVars, notLabel>>

\* a faulty Verdict that keeps only the outcome of the latest batch
VerdictOfLastBatch(os, ok) == ok

\* if not success: overall_success = False (lines 285-286, 308-310)
Verdict(os, ok) == IF ok THEN os ELSE FALSE

\* products = self.convert_keys(processed_data): one product per record of
\* the batch, so the list of products is as long as the batch
Products(batch) == [k \in 1..Len(batch) |-> batch[k]]

\* lines 78-81: pd.isna(value) of a list is an array of booleans, and the
\* test of an array of two or more elements raises ValueError; the value
\* is a list for the fields a row has beyond the header
clean_data_raises(array, surplus) ==
  \E k \in DOMAIN array : Get(surplus, array[k], 0) >= 2

\* lines 131-136: the parts of the price query, those of the batch whose
\* part number has a blank in it
parts_list(batch, nosep) == SelectSeq(batch, LAMBDA k : k \notin nosep)

\* lines 142-176: how the one request of the price query can end: with
\* prices, with a network error, with the timeout of 60 seconds, with an
\* HTTP error status, or with a response that is not of the expected form
PriceOutcomes == {"ok", "network", "timeout", "http_status", "malformed"}

\* lines 129-183: how get_processed_parts_prices can end for a batch;
\* without a part for the query no request is made (lines 138-140)
PriceQuery(batch, nosep) ==
  IF parts_list(batch, nosep) = <<>> THEN {"no_parts"} ELSE PriceOutcomes

\* a faulty PriceOk that takes every outcome for prices
PriceOkAlways(out) == TRUE

\* the success flag get_processed_parts_prices returns (lines 140, 176,
\* 180 and 183)
PriceOk(out) == out = "ok"

\* lines 284-303: process_batch, convert_keys, the payload, the call of
\* the first send. The price query is made only with include_price, and
\* it can fail. clean_data comes after the price step; what it raises
\* leaves post_data_with_retry and, in the job, the loop over the files
\* (lines 378-380: errors.append(str(e)), then the finally clause).
ProcessBatch ==
  /\ pc = "process_batch"
  /\ \E out \in (IF include_price
                  THEN PriceQuery(batches[i], session_data.nosep)
                  ELSE {"none"}) :
     LET price_ok == ~include_price \/ PriceOk(out)
     IN
     /\ price_out' = out
     /\ timeline' = IF include_price
                      THEN Append(timeline, Asked(i, PriceOk(out)))
                      ELSE timeline
     /\
       IF price_ok /\ clean_data_raises(batches[i], session_data.surplus)
         THEN /\ IF caller = "job"
                   THEN /\ errors' = Append(errors, <<"ValueError">>)
                        /\ fileLog' = Append(fileLog,
                             [file |-> FILES_CONFIG[fileIdx].file,
                              store_id |-> FILES_CONFIG[fileIdx].store_id,
                              retrieved |-> TRUE,
                              stored |-> FALSE])
                        /\ pc' = "job_finally"
                   ELSE /\ pc' = "call_raised"
                        /\ UNCHANGED <<errors, fileLog>>
              /\ UNCHANGED <<overall_success, events, call, attempt, delay>>
         ELSE IF ~price_ok \/ Products(batches[i]) = <<>>
           THEN \* overall_success = False; continue
                /\ overall_success' = Verdict(overall_success, FALSE)
                /\ events' = Append(events, Final(i, FALSE))
                /\ pc' = "batch_loop"
                /\ UNCHANGED <<call, attempt, delay, errors, fileLog>>
           ELSE \* _send_batch_to_api(payload, i, max_retries, delay)
                /\ call' = 1
                /\ attempt' = 0
                /\ delay' = initial_delay
                /\ pc' = "send"
                /\ UNCHANGED <<overall_success, events, errors, fileLog>>
  /\ UNCHANGED <<paramVars, batches, i, success, response, result, ftp,
                 fileIdx, rAttempt, rDelay, raised, submittedStores, scratch,
                 notLabel>>

\* line 345: if attempt < max_retries - 1, for the attempt numbered a
\* from 0
Waits(a, retries) == a < retries - 1

\* a faulty NextDelay that keeps the delay
NextDelaySame(d) == d

\* lines 230, 236 and 347: delay *= 2
NextDelay(d) == d * 2

\* a faulty EndsRetries that goes on after an accepted response
EndsRetriesNever(accepted) == FALSE

\* lines 337-338: an accepted response returns True from the send
\* primitive, which ends its loop
EndsRetries(accepted) == accepted

\* lines 328-349: one iteration of the loop of _send_batch_to_api
SendAttempt ==
  /\ pc = "send"
  /\ attempt < max_retries
  /\ \E r \in Responses :
       /\ response' = r
       /\ events' = Append(events, Submit(i, Accepted(r)))
       /\ timeline' =
            IF ~Accepted(r) /\ Waits(attempt, max_retries)
              THEN Append(Append(timeline, Try(i, call, attempt + 1)),
                          Slept(i, delay, 346))
              ELSE Append(timeline, Try(i, call, attempt + 1))
       /\ submittedStores' = submittedStores \cup {store_id}
       /\ IF EndsRetries(Accepted(r))
            THEN /\ success' = TRUE
                 /\ pc' = "sent"
                 /\ UNCHANGED <<attempt, delay>>
            ELSE /\ attempt' = attempt + 1
                 /\ delay' = IF Waits(attempt, max_retries)
                               THEN NextDelay(delay) ELSE delay
                 /\ IF attempt + 1 < max_retries
                      THEN /\ pc' = "send"
                           /\ UNCHANGED success
                      ELSE /\ pc' = "sent"
                           /\ success' = FALSE
  /\ UNCHANGED <<paramVars, loopVars, call, result, price_out, ftp, fileIdx,
                 rAttempt, rDelay, errors, raised, fileLog, scratch, notLabel>>

\* a faulty SendsAgain that calls the send primitive a third time
SendsAgainTwice(c) == c <= 2

\* lines 304-307: the send primitive is called again after its first call
\* failed, and only then
SendsAgain(c) == c = 1

\* lines 304-313: after a send returned; a failed first send is followed
\* by a second one, a failed second send marks the batch failed. The
\* asyncio.sleep(delay) of line 306 is not awaited: the coroutine is built
\* and dropped, and nothing is waited before the second send. The wait of
\* line 313 ends the iteration of the batch.
AfterSend ==
  /\ pc = "sent"
  /\ IF success
       THEN /\ overall_success' = Verdict(overall_success, TRUE)
            /\ events' = Append(events, Final(i, TRUE))
            /\ timeline' = Append(timeline,
                                   Slept(i, DELAY_BETWEEN_BATCHES, 313))
            /\ pc' = "batch_loop"
            /\ UNCHANGED <<call, attempt, delay>>
       ELSE IF SendsAgain(call)
         THEN /\ call' = call + 1
              /\ attempt' = 0
              /\ delay' = initial_delay
              /\ pc' = "send"
              /\ UNCHANGED <<overall_success, events, timeline>>
         ELSE /\ overall_success' = Verdict(overall_success, FALSE)
              /\ events' = Append(events, Final(i, FALSE))
              /\ timeline' = Append(timeline,
                                     Slept(i, DELAY_BETWEEN_BATCHES, 313))
              /\ pc' = "batch_loop"
              /\ UNCHANGED <<call, attempt, delay>>
  /\ UNCHANGED <<paramVars, batches, i, success, response, result, price_out,
                 jobVars, notLabel>>

\* if errors: raise Exception(...) (lines 389-390)
JobRaises(errs) == errs # <<>>

\* line 315 and, for the job, lines 370-376
PostReturn ==
  /\ pc = "post_return"
  /\ result' = <<overall_success>>
  /\ IF caller = "job"
       THEN /\ pc' = "file_loop"
            /\ errors' = IF overall_success THEN errors
                         ELSE Append(errors,
                                <<"Failed to store some data for",
                                  FILES_CONFIG[fileIdx].file>>)
            /\ fileLog' = Append(fileLog,
                            [file |-> FILES_CONFIG[fileIdx].file,
                             store_id |-> FILES_CONFIG[fileIdx].store_id,
                             retrieved |-> TRUE,
                             stored |-> overall_success])
       ELSE /\ pc' = "call_done"
            /\ UNCHANGED <<errors, fileLog>>
  /\ UNCHANGED <<paramVars, loopVars, sendVars, events, price_out, timeline,
                 ftp, fileIdx, rAttempt, rDelay, raised, submittedStores,
                 scratch, notLabel>>

(***************************************************************************)
(* EtiquetteController.read_and_store_files                                *)
(***************************************************************************)
\* the row sets a retrieved file can hold: a single row or one row more
\* than a batch, every row as wide as the header or the last row with two
\* fields too many
JobFiles ==
  {LabelRows(1, EmptyMap), LabelRows(BATCH_SIZE + 1, EmptyMap),
   LabelRows(1, 1 :> 2), LabelRows(BATCH_SIZE + 1, (BATCH_SIZE + 1) :> 2)}

\* lines 383-387: ftp.quit() inside try/except. quit sends QUIT and closes
\* the socket after the answer; when the command raises (the server has
\* dropped the control connection, the answer is an error) the close is
\* not reached and the handler of line 386 only logs, so that the
\* connection object is left as it was
AfterQuit == {"closed", "open"}

\* lines 353-361: connect, login, list. errors is bound only after the
\* listing, so a failure before it makes the handler's errors.append raise
\* NameError; the finally clause quits the connection if one was built.
JobSetup ==
  /\ pc = "job_start"
  /\ \E stage \in {"connect", "login", "nlst", "ok"} :
       IF stage = "ok"
         THEN /\ ftp' = "open"
              /\ errors' = <<>>
              /\ pc' = "file_loop"
              /\ UNCHANGED raised
         ELSE /\ ftp' \in IF stage = "connect" THEN {"none"} ELSE AfterQuit
              /\ raised' = "NameError"
              /\ pc' = "job_raised"
              /\ UNCHANGED errors
  /\ UNCHANGED <<paramVars, loopVars, sendVars, result, events, price_out,
                 timeline, fileIdx, rAttempt, rDelay, fileLog,
                 submittedStores, scratch, notLabel>>

\* line 362: the for loop takes the next configured file (file_name,
\* config), or ends
NextFile ==
  /\ pc = "file_loop"
  /\ IF fileIdx < Len(FILES_CONFIG)
       THEN /\ fileIdx' = fileIdx + 1
            /\ store_id' = FILES_CONFIG[fileIdx + 1].store_id
            /\ rAttempt' = 0
            /\ rDelay' = INITIAL_DELAY
            /\ pc' = "retrieve"
       ELSE /\ pc' = "job_finally"
            /\ UNCHANGED <<fileIdx, store_id, rAttempt, rDelay>>
  /\ timeline' = <<>>
  /\ UNCHANGED <<caller, include_price, max_retries, initial_delay,
                 session_data, loopVars, sendVars, result, events, price_out,
                 ftp, errors, raised, fileLog, submittedStores, scratch,
                 notLabel>>

\* lines 366-368: if not success: errors.append(...); continue
AfterRetrieval(ok) == IF ok THEN "post_start" ELSE "file_loop"

\* process_csv_with_retry returned (None, False): lines 366-368
RetrievalFailed ==
  /\ errors' = Append(errors,
                 <<"Failed to process", FILES_CONFIG[fileIdx].file>>)
  /\ fileLog' = Append(fileLog, [file |-> FILES_CONFIG[fileIdx].file,
                                 store_id |-> FILES_CONFIG[fileIdx].store_id,
                                 retrieved |-> FALSE,
                                 stored |-> FALSE])
  /\ pc' = AfterRetrieval(FALSE)
  /\ UNCHANGED <<caller, session_data>>

\* line 206: the scratch file of the file being retrieved
TempName == <<"temp", FILES_CONFIG[fileIdx].file>>

\* how one attempt of process_csv_with_retry can end: with rows, with a
\* file without rows, or with an exception raised by the retrieval or the
\* decoding (lines 199-203), by the writing of the scratch file (lines
\* 207-208) or by the load (lines 212-213)
AttemptOutcomes == {"rows", "empty", "retrieve", "write", "load"}

\* the scratch files after an attempt. Lines 221-224 remove the file once
\* the inner try is entered, that is when it was written; open() of line
\* 207, or the write after it, raises outside that try, and the file it
\* created, or one left by an earlier attempt, stays.
ScratchAfter(files, name, out) ==
  CASE out \in {"rows", "empty", "load"} -> {files \ {name}}
    [] out = "write" -> {files, files \cup {name}}
    [] OTHER -> {files}

\* line 234, negated: the attempt numbered a from 0 is the last one
LastAttempt(a, retries) == ~(a < retries - 1)

\* lines 195-241: one iteration of the loop of process_csv_with_retry,
\* and lines 365-373 when it returns. An exception whose text holds 'busy'
\* is followed by a wait and the next iteration whatever the attempt
\* (lines 227-231), so that the loop ends by exhaustion (line 241); another
\* exception is followed by a wait unless the attempt is the last one
\* (lines 234-239).
RetrieveAttempt ==
  /\ pc = "retrieve"
  /\ rAttempt < MAX_RETRIES
  /\ \E out \in AttemptOutcomes, busy \in BOOLEAN :
       /\ out \in {"rows", "empty"} => ~busy
       /\ scratch' \in ScratchAfter(scratch, TempName, out)
       /\ CASE out = "rows" ->
                 \E rows \in JobFiles :
                   /\ session_data' = rows
                   /\ timeline' = Append(timeline, Fetch(rAttempt + 1))
                   /\ pc' = AfterRetrieval(TRUE)
                   /\ UNCHANGED <<caller, rAttempt, rDelay, errors, fileLog>>
            [] out = "empty" ->
                 /\ RetrievalFailed
                 /\ timeline' = Append(timeline, Fetch(rAttempt + 1))
                 /\ UNCHANGED <<rAttempt, rDelay>>
            [] out \in {"retrieve", "write", "load"} /\ busy ->
                 /\ rAttempt' = rAttempt + 1
                 /\ rDelay' = NextDelay(rDelay)
                 /\ timeline' = Append(Append(timeline, Fetch(rAttempt + 1)),
                                       Slept(0, rDelay, 229))
                 /\ IF rAttempt + 1 < MAX_RETRIES
                      THEN /\ pc' = "retrieve"
                           /\ UNCHANGED <<caller, session_data, errors,
                                          fileLog>>
                      ELSE RetrievalFailed
            [] out \in {"retrieve", "write", "load"} /\ ~busy ->
                 IF ~LastAttempt(rAttempt, MAX_RETRIES)
                   THEN /\ rAttempt' = rAttempt + 1
                        /\ rDelay' = NextDelay(rDelay)
                        /\ timeline' =
                             Append(Append(timeline, Fetch(rAttempt + 1)),
                                    Slept(0, rDelay, 235))
                        /\ pc' = "retrieve"
                        /\ UNCHANGED <<caller, session_data, errors,
                                       fileLog>>
                   ELSE /\ RetrievalFailed
                        /\ timeline' = Append(timeline, Fetch(rAttempt + 1))
                        /\ UNCHANGED <<rAttempt, rDelay>>
  /\ UNCHANGED <<include_price, max_retries, initial_delay, store_id,
                 loopVars, sendVars, result, events, price_out, ftp, fileIdx,
                 raised, submittedStores, notLabel>>

\* lines 382-390: quit the connection, then raise if errors were collected
JobFinally ==
  /\ pc = "job_finally"
  /\ ftp' \in AfterQuit
  /\ IF JobRaises(errors)
       THEN /\ raised' = "Errors occurred"
            /\ pc' = "job_raised"
       ELSE /\ pc' = "job_done"
            /\ UNCHANGED raised
  /\ UNCHANGED <<paramVars, loopVars, sendVars, result, events, price_out,
                 timeline, fileIdx, rAttempt, rDelay, errors, fileLog,
                 submittedStores, scratch, notLabel>>

(***************************************************************************)
(* Text: a string is the sequence of its characters                        *)
(***************************************************************************)
Digits == {"0", "1", "2", "3", "4", "5", "6", "7", "8", "9"}

DigitVal(c) ==
  CASE c = "0" -> 0 [] c = "1" -> 1 [] c = "2" -> 2 [] c = "3" -> 3
    [] c = "4" -> 4 [] c = "5" -> 5 [] c = "6" -> 6 [] c = "7" -> 7
    [] c = "8" -> 8 [] c = "9" -> 9

RECURSIVE DecVal(_)
DecVal(s) == IF s = <<>> THEN 0 ELSE DecVal(Front(s)) * 10 + DigitVal(Last(s))

RECURSIVE lstrip(_)
lstrip(s) == IF s # <<>> /\ Head(s) = " " THEN lstrip(Tail(s)) ELSE s

RECURSIVE rstrip(_)
rstrip(s) == IF s # <<>> /\ Last(s) = " " THEN rstrip(Front(s)) ELSE s

\* str.strip()
strip(s) == rstrip(lstrip(s))

\* a faulty replace that leaves the text as it is
remove_nothing(s, c) == s

\* str.replace(c, '')
remove(s, c) == SelectSeq(s, LAMBDA x : x # c)

\* position of the first c in s, 0 if there is none
RECURSIVE IndexOf(_, _, _)
IndexOf(s, c, k) ==
  IF k > Len(s) THEN 0 ELSE IF s[k] = c THEN k ELSE IndexOf(s, c, k + 1)

\* the texts float() reads as an infinity, after an optional sign
Infinities == { <<"i", "n", "f">>, <<"I", "n", "f">>,
                <<"i", "n", "f", "i", "n", "i", "t", "y">> }

\* int(float(s)) for a decimal numeral: an optional sign, digits with at
\* most one point and at least one digit; int() truncates toward zero.
\* For an infinity float() succeeds and int() raises OverflowError
\* (overflow = TRUE); anything else raises ValueError (ok = FALSE).
int_float(s) ==
  LET signed == s # <<>> /\ Head(s) \in {"-", "+"}
      body   == IF signed THEN Tail(s) ELSE s
      dot    == IndexOf(body, ".", 1)
      whole  == IF dot = 0 THEN body ELSE SubSeq(body, 1, dot - 1)
      frac   == IF dot = 0 THEN <<>> ELSE SubSeq(body, dot + 1, Len(body))
      valid  == /\ Range(whole) \subseteq Digits
                /\ Range(frac) \subseteq Digits
                /\ Len(whole) + Len(frac) > 0
  IN IF valid
       THEN [ok |-> TRUE, overflow |-> FALSE,
             val |-> IF signed /\ Head(s) = "-" THEN 0 - DecVal(whole)
                     ELSE DecVal(whole)]
       ELSE [ok |-> FALSE, overflow |-> body \in Infinities, val |-> 0]

(***************************************************************************)
(* The store registry and the database                                     *)
(***************************************************************************)
\* the placeholder name of an unresolved location
inconnu == <<"i", "n", "c", "o", "n", "n", "u">>

\* controller/stores.py: a Store of the registry
Store(k) == [id |-> k,
             name |-> <<"store", k>>,
             recipient |-> <<"recipient", k>>,
             inventaire |-> <<"inventaire", k>>]

\* get_stores(): the registry, in its order
stores == [k \in 1..NumStores |-> Store(k)]

\* a row of the locations table
Location(id, code, name, store, archived) ==
  [id |-> id, upc |-> code, name |-> name, store |-> store,
   full_location |-> <<"loc", id>>, updated_by |-> "user",
   updated_at |-> "t0", created_by |-> "user", created_at |-> "t0",
   is_archived |-> archived]

\* SELECT name, count(name) FROM locations WHERE name NOT LIKE 'inconnu'
\* AND NOT is_archived AND store = :store_id GROUP BY name
get_db_quantities(table, store) ==
  LET rows == {k \in DOMAIN table :
                 /\ table[k].name # inconnu
                 /\ table[k].is_archived = 0
                 /\ table[k].store = store.id}
      names == {table[k].name : k \in rows}
  IN [n \in names |-> Cardinality({k \in rows : table[k].name = n})]

\* lines 57-82: the loop of get_csv_quantities over the rows that are left.
\* A row holds the texts of its 'Part Number' and 'Quantity on Hand'
\* fields; a row too short to have the quantity field holds None there
\* (qty_none), and None.strip() raises, which skips the row (line 80), as
\* does the OverflowError that the handler of line 74 does not catch.
\* lines 66-73: the quantity text is not empty and int(float(...)) of it
\* raises OverflowError
Overflows(qty) ==
  strip(qty) # <<>> /\ int_float(remove(strip(qty), ",")).overflow

RECURSIVE csv_rows(_, _, _)
csv_rows(rows, quantities, processed_parts) ==
  IF rows = <<>> THEN quantities
  ELSE
    LET row == Head(rows)
        part_number == remove(strip(row.pn), "-")
    IN IF part_number = <<>> \/ part_number \in processed_parts
         THEN csv_rows(Tail(rows), quantities, processed_parts)
         ELSE IF row.qty_none \/ Overflows(row.qty)
           THEN csv_rows(Tail(rows), quantities,
                         processed_parts \cup {part_number})
           ELSE
             LET value_str == strip(row.qty)
                 parsed == int_float(remove(value_str, ","))
                 qty == IF value_str = <<>> THEN 0
                        ELSE IF parsed.ok THEN parsed.val ELSE 0
             IN csv_rows(Tail(rows),
                         Put(quantities, part_number,
                             Get(quantities, part_number, 0) + qty),
                         processed_parts \cup {part_number})

\* lines 49-84
get_csv_quantities(rows) == csv_rows(rows, EmptyMap, {})

(***************************************************************************)
(* InventoryChecker: compare_inventory, send_notification                  *)
(***************************************************************************)
\* a faulty difference_of that subtracts the other way round
difference_swapped(db_count, csv_count) == db_count - csv_count

\* line 127: difference = csv_count - db_count
difference_of(db_count, csv_count) == csv_count - db_count

\* lines 125-136: the comparison of one item, with its difference
Comparison(store, item, db, csv) ==
  [store_id |-> store.id,
   item_name |-> item,
   db_count |-> Get(db, item, 0),
   csv_count |-> Get(csv, item, 0),
   difference |-> difference_of(Get(db, item, 0), Get(csv, item, 0))]

\* line 129: if difference != 0
Tracked(c) == c.difference # 0

\* lines 121-136, for the items in the order `order` of the set all_items
compare(store, db, csv, order) ==
  SelectSeq([k \in 1..Len(order) |-> Comparison(store, order[k], db, csv)],
            Tracked)

\* line 121: set(db_quantities.keys()) | set(csv_quantities.keys())
all_items(db, csv) == DOMAIN db \cup DOMAIN csv

\* sorted(comparisons, key=lambda x: x.difference): the sort is stable
RECURSIVE insert_sorted(_, _)
insert_sorted(sorted, c) ==
  IF sorted = <<>> THEN <<c>>
  ELSE IF Last(sorted).difference <= c.difference
    THEN Append(sorted, c)
    ELSE Append(insert_sorted(Front(sorted), c), Last(sorted))

RECURSIVE sorted_by_difference(_)
sorted_by_difference(cs) ==
  IF cs = <<>> THEN <<>>
  ELSE insert_sorted(sorted_by_difference(Front(cs)), Last(cs))

TempFile(store)   == <<"temp", store.inventaire>>
ReportFile(store) == <<"inventory_discrepancies", store.name>>

Step(store, name, ok) == [store |-> store.id, step |-> name, ok |-> ok]

\* the store being processed
store == stores[storeIdx]

notRecon == <<syncVars, jobVars, dbVars, resolverVars, reportVars,
             csvVars, applied, http, exportRun,
                 pairRuns>>

\* a faulty AfterStep that goes on after a failed step
AfterStepAnyway(ok, next) == next

\* lines 141-143 and 220-224: a step that raises ends the processing of
\* the store (compare_inventory re-raises, check_all_stores logs)
AfterStep(ok, next) == IF ok THEN next ELSE "store_loop"

\* a faulty NextStoreIndex that stops the run after a failed store
NextStoreIndexStop(n, k, log) ==
  IF k < n /\ (log = <<>> \/ Last(log).ok) THEN k + 1 ELSE 0

\* line 219: for store in self.stores; 0 when the loop is over. The
\* except clause of line 223 only logs, so the loop goes on after a failure.
NextStoreIndex(n, k, log) == IF k < n THEN k + 1 ELSE 0

\* line 219: the for loop takes the next store, or ends
NextStore ==
  /\ rpc = "store_loop"
  /\ LET nxt == NextStoreIndex(Len(stores), storeIdx, steps)
     IN IF nxt # 0
          THEN /\ storeIdx' = nxt
               /\ rpc' = "fetch_db"
          ELSE /\ storeIdx' = storeIdx
               /\ rpc' = "run_done"
  /\ db_quantities' = EmptyMap
  /\ csv_quantities' = EmptyMap
  /\ comparisons' = <<>>
  /\ snapshot' = <<>>
  /\ UNCHANGED <<disk, ftp_client, emails, steps, notRecon>>

\* lines 107-109: FETCH_AUTHORITATIVE; the query can fail
FetchAuthoritative ==
  /\ rpc = "fetch_db"
  /\ \E ok \in BOOLEAN :
       /\ steps' = Append(steps, Step(store, "FETCH_AUTHORITATIVE", ok))
       /\ rpc' = AfterStep(ok, "download")
       /\ db_quantities' = IF ok THEN get_db_quantities(locations, store)
                           ELSE db_quantities
  /\ UNCHANGED <<storeIdx, csv_quantities, comparisons, disk, snapshot,
                 ftp_client, emails, notRecon>>

\* the snapshot files the FTP server can hold: rows of 'Part Number' and
\* 'Quantity on Hand' texts
Row(pn, qty) == [pn |-> pn, qty |-> qty, qty_none |-> FALSE]

\* the snapshot of one row with part "A1 100" and quantity "1,500"
A1_100 == <<"A", "1", " ", "1", "0", "0">>

ThousandsSnapshot == << Row(A1_100, <<"1", ",", "5", "0", "0">>) >>

SampleSnapshots ==
  { <<>>,
    ThousandsSnapshot,
    << Row(<<"A", "1">>, <<"2">>) >>,
    << Row(<<"A", "1">>, <<"2">>), Row(<<"A", "-", "1">>, <<"3">>) >>,
    << Row(<<"A", "1">>, <<"i", "n", "f">>), Row(<<"B", "2">>, <<"4">>) >>,
    << Row(<<"A", "1">>, <<"1">>),
       Row(<<"C", " ", "3">>, <<"1", ",", "5", "0", "0">>) >>,
    << Row(<<" ", "A", "-", "1">>, <<"x">>),
       Row(<<"A", "1">>, <<"2">>),
       Row(<<"B", "2">>, <<" ", "3", ".", "7">>) >>,
    << Row(<<>>, <<"4">>),
       [pn |-> <<"B", "2">>, qty |-> <<>>, qty_none |-> TRUE],
       Row(<<"D">>, <<>>) >> }

\* lines 86-100: download_store_file. connect() can fail (it closes what
\* it opened), download_file can fail after it created the local file;
\* the finally clause closes the connection.
Download ==
  /\ rpc = "download"
  /\ \E out \in {"connect_failed", "download_failed", "ok"} :
       CASE out = "connect_failed" ->
              /\ steps' = Append(steps, Step(store, "FETCH_SNAPSHOT", FALSE))
              /\ rpc' = AfterStep(FALSE, "parse")
              /\ UNCHANGED <<disk, snapshot>>
         [] out = "download_failed" ->
              /\ steps' = Append(steps, Step(store, "FETCH_SNAPSHOT", FALSE))
              /\ disk' = disk \cup {TempFile(store)}
              /\ rpc' = AfterStep(FALSE, "parse")
              /\ UNCHANGED snapshot
         [] out = "ok" ->
              /\ \E rows \in SampleSnapshots : snapshot' = rows
              /\ disk' = disk \cup {TempFile(store)}
              /\ rpc' = AfterStep(TRUE, "parse")
              /\ UNCHANGED steps
  /\ ftp_client' = "closed"
  /\ UNCHANGED <<storeIdx, db_quantities, csv_quantities, comparisons,
                 emails, notRecon>>

\* lines 113-118: get_csv_quantities on the local file, which is removed
\* whether or not the load succeeded (load raises on undecodable bytes)
Parse ==
  /\ rpc = "parse"
  /\ \E ok \in BOOLEAN :
       /\ steps' = Append(steps, Step(store, "FETCH_SNAPSHOT", ok))
       /\ rpc' = AfterStep(ok, "diff")
       /\ csv_quantities' = IF ok THEN get_csv_quantities(snapshot)
                            ELSE csv_quantities
  /\ disk' = disk \ {TempFile(store)}
  /\ UNCHANGED <<storeIdx, db_quantities, comparisons, snapshot, ftp_client,
                 emails, notRecon>>

\* lines 120-139: DIFF. The items are visited in the iteration order of a
\* set, which is any order.
Diff ==
  /\ rpc = "diff"
  /\ \E order \in Orders(all_items(db_quantities, csv_quantities)) :
       comparisons' = compare(store, db_quantities, csv_quantities, order)
  /\ steps' = Append(steps, Step(store, "DIFF", TRUE))
  /\ rpc' = "notify"
  /\ UNCHANGED <<storeIdx, db_quantities, csv_quantities, disk, snapshot,
                 ftp_client, emails, notRecon>>

\* a faulty Notifies that reports every store, discrepancies or not
NotifiesAlways(cs) == TRUE

\* lines 147-149: if not comparisons: return
Notifies(cs) == cs # <<>>

\* lines 147-175: NOTIFY, up to the saved report file; a save that fails
\* raises before the try of line 177, so that whatever open() created of
\* the report file stays on disk
BuildReport ==
  /\ rpc = "notify"
  /\ IF Notifies(comparisons)
       THEN \E saved \in BOOLEAN :
              IF saved
                THEN /\ disk' = disk \cup {ReportFile(store)}
                     /\ rpc' = "send"
                     /\ UNCHANGED steps
                ELSE /\ disk' \in {disk, disk \cup {ReportFile(store)}}
                     /\ steps' = Append(steps, Step(store, "NOTIFY", FALSE))
                     /\ rpc' = "store_loop"
       ELSE /\ steps' = Append(Append(steps, Step(store, "NOTIFY", TRUE)),
                               Step(store, "DONE", TRUE))
            /\ rpc' = "store_loop"
            /\ UNCHANGED disk
  /\ UNCHANGED <<storeIdx, db_quantities, csv_quantities, comparisons,
                 snapshot, ftp_client, emails, notRecon>>

\* lines 177-213: the email with the report attached; the report file is
\* unlinked whether or not the send succeeded, a failed send raises
SendReport ==
  /\ rpc = "send"
  /\ \E delivered \in BOOLEAN :
       /\ emails' = Append(emails,
                      [to |-> store.recipient,
                       store |-> store.id,
                       rows |-> sorted_by_difference(comparisons),
                       delivered |-> delivered])
       /\ steps' = IF delivered
                     THEN Append(Append(steps, Step(store, "NOTIFY", TRUE)),
                                 Step(store, "DONE", TRUE))
                     ELSE Append(steps, Step(store, "NOTIFY", FALSE))
  /\ disk' = disk \ {ReportFile(store)}
  /\ rpc' = "store_loop"
  /\ UNCHANGED <<storeIdx, db_quantities, csv_quantities, comparisons,
                 snapshot, ftp_client, notRecon>>

(***************************************************************************)
(* LocationUpdateService._update_locations_from_inventory (phase 1)        *)
(***************************************************************************)
notResolver == <<syncVars, jobVars, reconVars, csvVars, applied, http,
                exportRun,
                 pairRuns>>

\* lines 89-96: the distinct codes of the non-archived placeholder rows
unknown_upcs(table) ==
  {table[k].upc : k \in {j \in DOMAIN table :
                           /\ table[j].name = inconnu
                           /\ table[j].is_archived = 0}}

\* lines 102-106: the dictionaries {row.upc: row.item} the catalog rows
\* with a code in upcs can build: one entry per matched code; of several
\* catalog rows with one code, the row that comes last in the result wins,
\* and the result has no stated order
upc_to_item_maps(catalog, upcs) ==
  LET matched == {r.upc : r \in {c \in catalog : c.upc \in upcs}}
  IN {m \in [matched -> {r.item : r \in catalog}] :
        \A u \in matched : \E r \in catalog : r.upc = u /\ r.item = m[u]}

\* a faulty Targets that forgets the archival test of the update
TargetsArchivedToo(table, code) ==
  {k \in DOMAIN table : table[k].upc = code /\ table[k].name = inconnu}

\* lines 112-117: the rows one update statement matches
Targets(table, code) ==
  {k \in DOMAIN table :
     /\ table[k].upc = code
     /\ table[k].name = inconnu
     /\ table[k].is_archived = 0}

\* the number of the current run
ThisRun == IF rerun THEN 2 ELSE 1

\* the row as the update statement leaves it: updated_at is the time of
\* the statement, which is later in a later run
Resolved(row, item) ==
  [row EXCEPT !.name = item,
              !.updated_at = <<"run", ThisRun>>,
              !.updated_by = "system"]

\* a faulty update_locations that renames only the first matched row
update_first_location(table, code, item) ==
  [k \in DOMAIN table |->
     IF k \in Targets(table, code)
        /\ \A j \in Targets(table, code) : k <= j
       THEN Resolved(table[k], item)
       ELSE table[k]]

\* lines 110-125: update(Location).where(...).values(...)
update_locations(table, code, item) ==
  [k \in DOMAIN table |->
     IF k \in Targets(table, code)
       THEN Resolved(table[k], item)
       ELSE table[k]]

\* result.rowcount: the rows the statement matched
rowcount(table, code) == Cardinality(Targets(table, code))

\* what phase 1 leaves alone of the run around it
notPhase1 == <<remaining, reports, rerun, first_run>>

\* lines 88-106: the two queries; either can fail, no code is an early
\* return of 0
ResolveStart ==
  /\ resolver_pc = "start"
  /\ \E ok \in BOOLEAN :
       IF ~ok
         THEN /\ resolver_pc' = "raised"
              /\ phases' = Append(phases, "phase1_raised")
              /\ UNCHANGED <<upc_to_item, pending, total_updated,
                             returned>>
         ELSE IF unknown_upcs(locations) = {}
           THEN /\ returned' = 0
                /\ resolver_pc' = "done"
                /\ phases' = Append(phases, "phase1_returned")
                /\ UNCHANGED <<upc_to_item, pending, total_updated>>
           ELSE \E m \in upc_to_item_maps(inventory,
                                          unknown_upcs(locations)) :
                  /\ upc_to_item' = m
                  /\ pending' = DOMAIN m
                  /\ total_updated' = 0
                  /\ resolver_pc' = "update"
                  /\ UNCHANGED <<returned, phases>>
  /\ UNCHANGED <<locations0, dbVars, notPhase1, notResolver>>

\* a faulty rollback that keeps what the session had not committed
rollback_nothing(committed, working) == working

\* line 133: session.rollback() discards what the session changed since
\* its last commit
rollback(committed, working) == committed

\* lines 109-127: one iteration of the loop over upc_to_item: the update
\* and its commit; a failure of the statement or of its commit rolls the
\* uncommitted update back and raises
UpdateCode ==
  /\ resolver_pc = "update"
  /\ pending # {}
  /\ \E code \in pending, ok \in BOOLEAN :
       IF ok
         THEN /\ locations' =
                   update_locations(locations, code, upc_to_item[code])
              /\ total_updated' =
                   total_updated + rowcount(locations, code)
              /\ pending' = pending \ {code}
              /\ UNCHANGED <<resolver_pc, phases>>
         ELSE /\ resolver_pc' = "raised"
              /\ phases' = Append(phases, "phase1_raised")
              /\ \E executed \in BOOLEAN :
                   locations' =
                     rollback(locations,
                              IF executed
                                THEN update_locations(locations, code,
                                                      upc_to_item[code])
                                ELSE locations)
              /\ UNCHANGED <<total_updated, pending>>
  /\ UNCHANGED <<locations0, upc_to_item, returned, inventory, notPhase1,
                 notResolver>>

\* line 129: return total_updated
ResolveReturn ==
  /\ resolver_pc = "update"
  /\ pending = {}
  /\ returned' = total_updated
  /\ resolver_pc' = "done"
  /\ phases' = Append(phases, "phase1_returned")
  /\ UNCHANGED <<locations0, upc_to_item, pending, total_updated, dbVars,
                 notPhase1, notResolver>>

(***************************************************************************)
(* LocationUpdateService.update_unknown_locations: phase 2 and the report  *)
(***************************************************************************)
\* what phase 2 and the report leave alone
notPhase2 == <<locations0, upc_to_item, pending, total_updated, returned,
               dbVars, rerun, first_run>>

\* the report file of the run (its name carries the time of the run)
UnknownReportFile == <<"unknown_locations", ThisRun>>

\* lines 149-160: the group of one code: (upc, 'inconnu', locations), the
\* full locations of its non-archived placeholder rows concatenated (in
\* no stated order, kept as a set)
remaining_row(table, code) ==
  [upc |-> code,
   name |-> inconnu,
   locations |-> {table[k].full_location : k \in Targets(table, code)}]

\* lines 149-167: one row per code that still has a non-archived
\* placeholder row; the groups are sorted by a column that is not grouped,
\* so that their order is any order
remaining_lists(table) ==
  {[k \in DOMAIN order |-> remaining_row(table, order[k])] :
     order \in Orders(unknown_upcs(table))}

\* a faulty Reports that sends a report whatever remains
ReportsAlways(rows) == TRUE

\* line 79: if remaining_locations
Reports(rows) == rows # <<>>

\* lines 75-80: phase 2, entered when phase 1 has returned; the query can
\* fail, and nothing remaining ends the run without a report
Phase2 ==
  /\ resolver_pc = "done"
  /\ \E ok \in BOOLEAN :
       IF ~ok
         THEN /\ resolver_pc' = "run_raised"
              /\ phases' = Append(phases, "phase2_raised")
              /\ UNCHANGED remaining
         ELSE \E rows \in remaining_lists(locations) :
                /\ remaining' = rows
                /\ phases' = Append(phases, "phase2_returned")
                /\ resolver_pc' = IF Reports(rows) THEN "report"
                                                   ELSE "run_done"
  /\ UNCHANGED <<reports, disk, notPhase2>>
  /\ UNCHANGED <<syncVars, jobVars, rpc, storeIdx, db_quantities,
                 csv_quantities, comparisons, snapshot, ftp_client, emails,
                 steps, csvVars, applied, http, exportRun,
                 pairRuns>>

\* lines 181-209: the report file is written, sent and unlinked; writing
\* can fail (with or without a file left), and a failed send raises before
\* the unlink of line 205, so that the file stays
SendUnknownReport ==
  /\ resolver_pc = "report"
  /\ \E out \in {"write_failed", "send_failed", "sent"} :
       CASE out = "write_failed" ->
              /\ disk' \in {disk, disk \cup {UnknownReportFile}}
              /\ resolver_pc' = "run_raised"
              /\ phases' = Append(phases, "report_raised")
              /\ UNCHANGED reports
         [] out = "send_failed" ->
              /\ disk' = disk \cup {UnknownReportFile}
              /\ reports' = Append(reports,
                              [to |-> stores[1].recipient,
                               run |-> ThisRun,
                               rows |-> remaining,
                               delivered |-> FALSE])
              /\ resolver_pc' = "run_raised"
              /\ phases' = Append(phases, "report_raised")
         [] out = "sent" ->
              /\ disk' = disk \ {UnknownReportFile}
              /\ reports' = Append(reports,
                              [to |-> stores[1].recipient,
                               run |-> ThisRun,
                               rows |-> remaining,
                               delivered |-> TRUE])
              /\ resolver_pc' = "run_done"
              /\ phases' = Append(phases, "report_sent")
  /\ UNCHANGED <<remaining, notPhase2>>
  /\ UNCHANGED <<syncVars, jobVars, rpc, storeIdx, db_quantities,
                 csv_quantities, comparisons, snapshot, ftp_client, emails,
                 steps, csvVars, applied, http, exportRun,
                 pairRuns>>

\* a second call of update_unknown_locations after the first one ended
Rerun ==
  /\ resolver_pc \in {"run_done", "run_raised", "raised"}
  /\ ~rerun
  /\ rerun' = TRUE
  /\ first_run' = [ended |-> resolver_pc, table |-> locations,
                    phases |-> phases]
  /\ resolver_pc' = "start"
  /\ upc_to_item' = EmptyMap
  /\ pending' = {}
  /\ total_updated' = 0
  /\ returned' = "none"
  /\ remaining' = <<>>
  /\ phases' = <<>>
  /\ UNCHANGED <<locations0, reports, dbVars, notResolver>>


(***************************************************************************)
(* CSVHandler (server/controller/csv.py)                                   *)
(*                                                                         *)
(* A row is a dictionary: a function from its keys to values.  A value     *)
(* carries its Python type, so that writing it to a file and reading it    *)
(* back (which yields text) is visible.  None and [] behave alike for      *)
(* self.headers in every method (`if self.headers`, `self.headers or`,     *)
(* `not self.headers`), so <<>> stands for both.                           *)
(***************************************************************************)
notCsv == <<syncVars, jobVars, dbVars, reconVars, resolverVars, reportVars,
           applied, http, exportRun,
                 pairRuns>>

None == [t |-> "none", v |-> ""]

Int7 == [t |-> "int", v |-> "7"]

StrX == [t |-> "str", v |-> "x"]

Str(text) == [t |-> "str", v |-> text]

\* what csv.writer writes for a value: str(value), and '' for None
to_text(value) == value.v

\* the byte-order mark that the utf-8-sig codec writes and that the utf-8
\* codec leaves in front of the first field when the file is read back
BOM == "\\ufeff"

\* a CSVHandler's file: absent, or a header line and the lines of the rows
NoFile == [exists |-> FALSE, bom |-> FALSE, header |-> <<>>, lines |-> <<>>]

\* line 33 and line 60: the key check of add_row and update_row
keys_match(hdrs, row_data) == hdrs = <<>> \/ DOMAIN row_data = Range(hdrs)

\* a faulty index check that lets -1 through, as Python's list indexing does
index_ok_negative(index, rows) == ~(index < -1 \/ index >= Len(rows))

\* lines 58, 74 and 163: the index check of update_row, delete_row, get_row
index_ok(index, rows) == ~(index < 0 \/ index >= Len(rows))

\* rows[index] of Python, index counted from 0, -1 being the last row
At(index, rows) == IF index < 0 THEN Len(rows) + 1 + index ELSE index + 1

\* lines 23-35
add_row(h, row_data) ==
  IF ~keys_match(h.headers, row_data)
    THEN [raised |-> "ValueError", h |-> h]
    ELSE [raised |-> "none", h |-> [h EXCEPT !.data = Append(@, row_data)]]

\* lines 37-45: the rows before the first rejected one stay appended
RECURSIVE add_rows(_, _)
add_rows(h, rows) ==
  IF rows = <<>> THEN [raised |-> "none", h |-> h]
  ELSE LET r == add_row(h, Head(rows))
       IN IF r.raised # "none" THEN r ELSE add_rows(r.h, Tail(rows))

\* lines 47-62
update_row(h, index, row_data) ==
  IF ~index_ok(index, h.data)
    THEN [raised |-> "IndexError", h |-> h]
  ELSE IF ~keys_match(h.headers, row_data)
    THEN [raised |-> "ValueError", h |-> h]
  ELSE [raised |-> "none",
        h |-> [h EXCEPT !.data[At(index, h.data)] = row_data]]

\* lines 64-76
delete_row(h, index) ==
  IF ~index_ok(index, h.data)
    THEN [raised |-> "IndexError", h |-> h]
    ELSE [raised |-> "none",
          h |-> [h EXCEPT !.data =
                   [k \in 1..(Len(@) - 1) |->
                      IF k < At(index, h.data) THEN @[k] ELSE @[k + 1]]]]

\* lines 150-165
get_row(h, index) ==
  IF ~index_ok(index, h.data)
    THEN [raised |-> "IndexError", row |-> EmptyMap]
    ELSE [raised |-> "none", row |-> h.data[At(index, h.data)]]

\* lines 117-132: row[column_name] raises KeyError too when a row has no
\* such key
get_column(h, column_name) ==
  IF \/ h.headers = <<>>
     \/ column_name \notin Range(h.headers)
     \/ \E k \in DOMAIN h.data : column_name \notin DOMAIN h.data[k]
    THEN [raised |-> "KeyError", column |-> <<>>]
    ELSE [raised |-> "none",
          column |-> [k \in DOMAIN h.data |-> h.data[k][column_name]]]

\* the keys of a dictionary in insertion order: the rows handed to a
\* handler without headers are written in the order of AllKeys
AllKeys == <<"a", "b", "d">>

keys(row_data) == SelectSeq(AllKeys, LAMBDA k : k \in DOMAIN row_data)

\* lines 142-143: the headers add_column works on
inferred_headers(h) ==
  IF h.headers # <<>> THEN h.headers
  ELSE IF h.data # <<>> THEN keys(h.data[1]) ELSE <<>>

\* a faulty backfill that leaves the last row without the new column
backfill_but_last(rows, column_name, default_value) ==
  [k \in DOMAIN rows |->
     IF k = Len(rows) THEN rows[k]
     ELSE Put(rows[k], column_name, default_value)]

\* lines 147-148
backfill(rows, column_name, default_value) ==
  [k \in DOMAIN rows |-> Put(rows[k], column_name, default_value)]

\* lines 134-148
add_column(h, column_name, default_value) ==
  LET hdrs == inferred_headers(h)
  IN IF column_name \in Range(hdrs)
       THEN [h EXCEPT !.headers = hdrs]
       ELSE [headers |-> Append(hdrs, column_name),
             data |-> backfill(h.data, column_name, default_value)]

\* line 86: the field names save writes
fieldnames(h) ==
  IF h.headers # <<>> THEN h.headers
  ELSE IF h.data # <<>> THEN keys(h.data[1]) ELSE <<>>

\* csv.DictWriter: a row with a key outside the field names is refused, a
\* missing key is written as ''
writable(names, row_data) == DOMAIN row_data \subseteq Range(names)

line_of(names, row_data) ==
  [k \in DOMAIN names |->
     IF names[k] \in DOMAIN row_data THEN to_text(row_data[names[k]])
     ELSE ""]

\* the number of rows written before the first refused one
RECURSIVE written(_, _)
written(names, rows) ==
  IF rows = <<>> \/ ~writable(names, Head(rows)) THEN 0
  ELSE 1 + written(names, Tail(rows))

\* lines 78-96: the file is truncated, the header line is written, then the
\* rows up to the first one DictWriter refuses
save(h) ==
  LET names == fieldnames(h)
      n     == written(names, h.data)
  IN [raised |-> IF n < Len(h.data) THEN "ValueError" ELSE "none",
      file |-> [exists |-> TRUE, bom |-> TRUE, header |-> names,
                lines |-> [k \in 1..n |-> line_of(names, h.data[k])]]]

\* lines 112-114: csv.DictReader takes the field names from the first
\* line; read as utf-8, the mark of a utf-8-sig file stays in the first one
read_fieldnames(f) ==
  IF ~f.bom THEN f.header
  ELSE IF f.header = <<>> THEN <<BOM>>
  ELSE <<BOM \o f.header[1]>> \o Tail(f.header)

\* line 115: every field comes back as text under its field name
read_rows(f) ==
  LET names == read_fieldnames(f)
  IN [k \in DOMAIN f.lines |->
        [name \in Range(names) |->
           Str(f.lines[k][CHOOSE j \in DOMAIN names : names[j] = name])]]

\* a faulty load that looks at the file as it is now
load_fresh(h, exists, f) ==
  IF ~f.exists THEN [raised |-> "FileNotFoundError", h |-> h]
  ELSE [raised |-> "none",
        h |-> [headers |-> read_fieldnames(f), data |-> read_rows(f)]]

\* lines 99-115
load(h, exists, f) ==
  IF ~exists THEN [raised |-> "FileNotFoundError", h |-> h]
  ELSE [raised |-> "none",
        h |-> [headers |-> read_fieldnames(f), data |-> read_rows(f)]]

(***************************************************************************)
(* The operations as actions on one handler                                *)
(***************************************************************************)
Handler == [headers |-> headers, data |-> data]

NoArg == [index |-> 0, rows |-> <<>>, name |-> "", default |-> None]

NoValue == [row |-> EmptyMap, column |-> <<>>]

\* the record of an operation: its input, its outcome, the handler before
\* it and the number of operations called so far
Done(op, arg, exc, value) ==
  [op |-> op, arg |-> arg, raised |-> exc, value |-> value,
   before |-> Handler, n |-> last.n + 1]

\* the rows handed to add_row, add_rows and update_row
RowInputs ==
  { [a |-> Int7, b |-> StrX],
    [a |-> None, b |-> Int7],
    [b |-> StrX] }

\* the largest number of rows a handler is given
MaxRows == 2

\* the largest number of operations called on one handler
MaxOps == 4

AddRow ==
  \E row_data \in RowInputs :
    LET r == add_row(Handler, row_data)
    IN /\ last.n < MaxOps
       /\ Len(data) < MaxRows
       /\ headers' = r.h.headers
       /\ data' = r.h.data
       /\ last' = Done("add_row", [NoArg EXCEPT !.rows = <<row_data>>],
                       r.raised, NoValue)
       /\ UNCHANGED <<file_exists, file, notCsv>>

AddRows ==
  \E r1 \in RowInputs, r2 \in RowInputs :
    LET r == add_rows(Handler, <<r1, r2>>)
    IN /\ last.n < MaxOps
       /\ r1 # r2
       /\ Len(data) + 2 <= MaxRows
       /\ headers' = r.h.headers
       /\ data' = r.h.data
       /\ last' = Done("add_rows", [NoArg EXCEPT !.rows = <<r1, r2>>],
                       r.raised, NoValue)
       /\ UNCHANGED <<file_exists, file, notCsv>>

UpdateRow ==
  \E index \in -1..MaxRows, row_data \in RowInputs :
    LET r == update_row(Handler, index, row_data)
    IN /\ last.n < MaxOps
       /\ headers' = r.h.headers
       /\ data' = r.h.data
       /\ last' = Done("update_row",
                       [NoArg EXCEPT !.index = index, !.rows = <<row_data>>],
                       r.raised, NoValue)
       /\ UNCHANGED <<file_exists, file, notCsv>>

DeleteRow ==
  \E index \in -1..MaxRows :
    LET r == delete_row(Handler, index)
    IN /\ last.n < MaxOps
       /\ headers' = r.h.headers
       /\ data' = r.h.data
       /\ last' = Done("delete_row", [NoArg EXCEPT !.index = index],
                       r.raised, NoValue)
       /\ UNCHANGED <<file_exists, file, notCsv>>

GetRow ==
  \E index \in -1..MaxRows :
    LET r == get_row(Handler, index)
    IN /\ last.n < MaxOps
       /\ last' = Done("get_row", [NoArg EXCEPT !.index = index],
                       r.raised, [NoValue EXCEPT !.row = r.row])
       /\ UNCHANGED <<headers, data, file_exists, file, notCsv>>

GetColumn ==
  \E column_name \in {"a", "d"} :
    LET r == get_column(Handler, column_name)
    IN /\ last.n < MaxOps
       /\ last' = Done("get_column", [NoArg EXCEPT !.name = column_name],
                       r.raised, [NoValue EXCEPT !.column = r.column])
       /\ UNCHANGED <<headers, data, file_exists, file, notCsv>>

AddColumn ==
  \E column_name \in {"a", "b", "d"}, default_value \in {None, Int7} :
    LET h == add_column(Handler, column_name, default_value)
    IN /\ last.n < MaxOps
       /\ headers' = h.headers
       /\ data' = h.data
       /\ last' = Done("add_column",
                       [NoArg EXCEPT !.name = column_name,
                                     !.default = default_value],
                       "none", NoValue)
       /\ UNCHANGED <<file_exists, file, notCsv>>

Save ==
  LET r == save(Handler)
  IN /\ last.n < MaxOps
     /\ file' = r.file
     /\ last' = Done("save", NoArg, r.raised, NoValue)
     /\ UNCHANGED <<headers, data, file_exists, notCsv>>

Load ==
  LET r == load(Handler, file_exists, file)
  IN /\ last.n < MaxOps
     /\ headers' = r.h.headers
     /\ data' = r.h.data
     /\ last' = Done("load", NoArg, r.raised, NoValue)
     /\ UNCHANGED <<file_exists, file, notCsv>>

(***************************************************************************)
(* EtiquetteController: the functions that prepare the payload of a batch  *)
(* (convert_keys, clean_data, merge_price_data, process_batch), on records *)
(* that are dictionaries from field names to typed values.                 *)
(***************************************************************************)
notPrepare == <<syncVars, jobVars, dbVars, reconVars, resolverVars,
                reportVars, csvVars, http, exportRun,
                 pairRuns>>

\* float('nan')
NaN == [t |-> "nan", v |-> "nan"]

Zero == [t |-> "int", v |-> "0"]

\* what csv.DictReader stores under the key None for a row with one, and
\* with two, fields more than the header
OneSurplus == [t |-> "list", v |-> "x"]

TwoSurplus == [t |-> "list", v |-> "x,y"]

\* the key None of a row with surplus fields
NoneKey == "<None>"

\* lines 61-68: _key_mapping
key_mapping(price) ==
  IF price
    THEN [f \in {"Part Number", "Part Description", "Value", "UPC Code",
                 "Price"} |->
            CASE f = "Part Number" -> "pi"
              [] f = "Part Description" -> "pn"
              [] f = "Value" -> "kc"
              [] f = "UPC Code" -> "pc"
              [] f = "Price" -> "pp"]
    ELSE [f \in {"Part Number", "Part Description", "Value", "UPC Code"} |->
            CASE f = "Part Number" -> "pi"
              [] f = "Part Description" -> "pn"
              [] f = "Value" -> "kc"
              [] f = "UPC Code" -> "pc"]

\* a faulty conversion that keeps the fields the mapping does not have
convert_item_keep(mapping, item) ==
  [k \in {IF f \in DOMAIN mapping THEN mapping[f] ELSE f : f \in DOMAIN item}
     |-> item[CHOOSE f \in DOMAIN item :
                k = IF f \in DOMAIN mapping THEN mapping[f] ELSE f]]

\* lines 72-73: {mapping[k]: v for k, v in item.items() if k in mapping}
convert_item(mapping, item) ==
  [k \in {mapping[f] : f \in DOMAIN item \cap DOMAIN mapping}
     |-> item[CHOOSE f \in DOMAIN item \cap DOMAIN mapping : mapping[f] = k]]

\* lines 70-73
convert_keys(mapping, data_list) ==
  [k \in DOMAIN data_list |-> convert_item(mapping, data_list[k])]

\* pd.isna(value) for a scalar
is_na(value) == value.t \in {"none", "nan"}

\* line 80: pd.isna of a list is an array, and the truth value of an array
\* of two or more elements is a ValueError
isna_raises(value) == value = TwoSurplus

\* lines 79-81 for one item
clean_item(item) ==
  [f \in DOMAIN item |-> IF is_na(item[f]) THEN Zero ELSE item[f]]

item_raises(item) == \E f \in DOMAIN item : isna_raises(item[f])

\* lines 76-82: the items before the first one that raises are cleaned
RECURSIVE clean_data(_)
clean_data(array) ==
  IF array = <<>> THEN [raised |-> "none", array |-> <<>>]
  ELSE IF item_raises(Head(array))
    THEN [raised |-> "ValueError", array |-> array]
  ELSE LET rest == clean_data(Tail(array))
       IN [raised |-> rest.raised,
           array |-> <<clean_item(Head(array))>> \o rest.array]

\* line 109: the price record of a part number, the last one of the list
\* when several have it
price_of(prices, part_num) ==
  LET matches == {j \in DOMAIN prices : prices[j]["Part Number"] = part_num}
  IN prices[CHOOSE j \in matches : \A m \in matches : m <= j]

in_price_dict(prices, part_num) ==
  \E j \in DOMAIN prices : prices[j]["Part Number"] = part_num

\* line 119
price_info(price_item) ==
  [f \in DOMAIN price_item \ {"Part Number"} |-> price_item[f]]

\* a faulty update that keeps the fields the item has already
updated_new_only(item, info) ==
  [f \in DOMAIN item \cup DOMAIN info |->
     IF f \in DOMAIN item THEN item[f] ELSE info[f]]

\* line 120: dict.update
updated(item, info) ==
  [f \in DOMAIN item \cup DOMAIN info |->
     IF f \in DOMAIN info THEN info[f] ELSE item[f]]

\* lines 112-122 for one item; every record has the field Part Number
merged_item(prices, item) ==
  LET part_num == item["Part Number"]
  IN IF in_price_dict(prices, part_num)
       THEN updated(item, price_info(price_of(prices, part_num)))
       ELSE item

\* lines 102-124: the merged list; line 114 copies each item before the
\* update, so the two lists handed in are left as they were
merge_price_data(prices, data_list) ==
  [merged |-> [k \in DOMAIN data_list |-> merged_item(prices, data_list[k])],
   data |-> data_list,
   prices |-> prices]

\* a faulty order: the batch is cleaned, then the prices are merged
cleaned_then_merged(prices, batch) ==
  LET cleaned == clean_data(batch)
  IN [raised |-> cleaned.raised,
      array |-> IF cleaned.raised = "none"
                  THEN merge_price_data(prices, cleaned.array).merged
                  ELSE cleaned.array]

\* lines 259-260
merged_then_cleaned(prices, batch) ==
  clean_data(merge_price_data(prices, batch).merged)

\* lines 249-260: prices and price_ok are what get_processed_parts_prices
\* returned; without prices clean_data works on the batch itself
process_batch(price, batch, prices, price_ok) ==
  IF ~price
    THEN LET r == clean_data(batch)
         IN [raised |-> r.raised, data |-> r.array, success |-> TRUE,
             batch |-> r.array]
  ELSE IF ~price_ok
    THEN [raised |-> "none", data |-> <<>>, success |-> FALSE,
          batch |-> batch]
  ELSE LET r == merged_then_cleaned(prices, batch)
       IN [raised |-> r.raised, data |-> r.array, success |-> TRUE,
           batch |-> batch]

NoPayload == [built |-> FALSE, f1 |-> <<>>]

\* lines 284-301: the payload of a batch, if one is built
payload_of(price, batch, prices, price_ok) ==
  LET r == process_batch(price, batch, prices, price_ok)
      products == convert_keys(key_mapping(price), r.data)
  IN IF r.raised # "none" \/ ~r.success \/ products = <<>>
       THEN NoPayload
       ELSE [built |-> TRUE, f1 |-> products]

(***************************************************************************)
(* One application of one of the functions                                 *)
(***************************************************************************)
\* the records of a batch: rows as the file retrieval yields them
BatchRows ==
  { ("Part Number" :> Str("A 1")) @@ ("Value" :> None) @@ ("Extra" :> StrX),
    ("Part Number" :> Str("B 2")) @@ ("UPC Code" :> NaN) @@ ("Price" :> Int7),
    ("Part Number" :> Str("A 1")) @@ ("Part Description" :> StrX),
    ("Part Number" :> Str("A 1")) @@ (NoneKey :> OneSurplus),
    ("Part Number" :> Str("C 3")) @@ (NoneKey :> TwoSurplus) }

\* the price records
PriceRows ==
  { ("Part Number" :> Str("A 1")) @@ ("Price" :> Int7),
    ("Part Number" :> Str("A 1")) @@ ("Price" :> None),
    ("Part Number" :> Str("B 2")) @@ ("Price" :> NaN) @@ ("Value" :> StrX) }

\* the largest number of records in a batch and in a price list
MaxItems == 2

SeqsUpTo(S, n) == UNION {[1..m -> S] : m \in 0..n}

NotApplied ==
  [op |-> "none", raised |-> "none", out |-> <<>>, payload |-> NoPayload,
   data_after |-> <<>>, prices_after |-> <<>>]

\* the arguments of the application
Args ==
  [include_price : BOOLEAN, data : SeqsUpTo(BatchRows, MaxItems),
   prices : SeqsUpTo(PriceRows, MaxItems), price_ok : BOOLEAN]

\* the record of an application: what it raised and returned, the payload
\* built from it, and the argument lists as they are after it
Applied(op, exc, out, payload, data_after, prices_after) ==
  [applied EXCEPT !.op = op, !.raised = exc, !.out = out,
                  !.payload = payload, !.data_after = data_after,
                  !.prices_after = prices_after]

ConvertKeys ==
  /\ applied.op = "none"
  /\ applied' = Applied("convert_keys", "none",
                        convert_keys(key_mapping(applied.include_price),
                                     applied.data),
                        NoPayload, applied.data, applied.prices)
  /\ UNCHANGED notPrepare

CleanData ==
  /\ applied.op = "none"
  /\ LET r == clean_data(applied.data)
     IN applied' = Applied("clean_data", r.raised, r.array, NoPayload,
                           r.array, applied.prices)
  /\ UNCHANGED notPrepare

MergePriceData ==
  /\ applied.op = "none"
  /\ LET r == merge_price_data(applied.prices, applied.data)
     IN applied' = Applied("merge_price_data", "none", r.merged, NoPayload,
                           r.data, r.prices)
  /\ UNCHANGED notPrepare

PreparePayload ==
  /\ applied.op = "none"
  /\ LET r == process_batch(applied.include_price, applied.data,
                            applied.prices, applied.price_ok)
     IN applied' = Applied("process_batch", r.raised, r.data,
                           payload_of(applied.include_price, applied.data,
                                      applied.prices, applied.price_ok),
                           r.batch, applied.prices)
  /\ UNCHANGED notPrepare

(***************************************************************************)
(* The manual triggers (server/main.py): an endpoint runs its job inside   *)
(* try/except and answers with a message or with the text of the error.    *)
(* A job is modelled by its units of work (the files of the label jobs,    *)
(* the stores of the export and of the reconciliation, the phases of the   *)
(* resolver), each of which works or fails, and by what the job does with  *)
(* a failure: collect it, swallow it, or raise it.                         *)
(***************************************************************************)
notTrigger == <<syncVars, jobVars, dbVars, reconVars, resolverVars,
                reportVars, csvVars, applied, exportRun,
                 pairRuns>>

\* the paths of main.py, lines 48, 57, 67, 76 and 86
Endpoints ==
  {"update_price_label", "update_qty_label", "offline_inv", "unknown_inv",
   "diff_inv"}

LabelEndpoints == {"update_price_label", "update_qty_label"}

\* '; '.join(errors)
RECURSIVE join(_, _)
join(sep, texts) ==
  IF texts = <<>> THEN ""
  ELSE IF Len(texts) = 1 THEN texts[1]
  ELSE texts[1] \o sep \o join(sep, Tail(texts))

\* str(e) of the exception a failing unit of work raises
ErrorText(unit) == "error in " \o unit

\* the names of the stores of the registry
StoreName(k) == IF k = 1 THEN "store 1" ELSE "store 2"

\* the phases of update_unknown_locations, lines 71, 75 and 80
ResolverPhases == <<"update", "remaining", "report">>

\* main.py: the value an endpoint returns, from what its job raised
Answer(exc) ==
  IF exc = "none" THEN "message" :> "Data updated successfully"
  ELSE "error" :> exc

NoRequest ==
  [pc |-> "idle", endpoint |-> "none", k |-> 0, failures |-> <<>>,
   errors |-> <<>>, raised |-> "none", response |-> EmptyMap]

\* a request reaches an endpoint, which calls its job
Request ==
  /\ http.pc = "idle"
  /\ \E endpoint \in Endpoints :
       http' = [http EXCEPT !.pc = "job", !.endpoint = endpoint]
  /\ UNCHANGED notTrigger

\* read_and_store_files, lines 362-380: a file that cannot be retrieved or
\* stored is collected in errors and the loop goes on; an exception leaves
\* the loop and is collected too
LabelFile ==
  /\ http.pc = "job"
  /\ http.endpoint \in LabelEndpoints
  /\ http.k < Len(FILES_CONFIG)
  /\ LET name == FILES_CONFIG[http.k + 1].file
     IN \E outcome \in {"ok", "retrieval", "store", "exception"} :
          http' =
            CASE outcome = "ok" -> [http EXCEPT !.k = @ + 1]
              [] outcome = "retrieval" ->
                   [http EXCEPT
                      !.k = @ + 1,
                      !.failures = Append(@, "Failed to process " \o name),
                      !.errors = Append(@, "Failed to process " \o name)]
              [] outcome = "store" ->
                   [http EXCEPT
                      !.k = @ + 1,
                      !.failures =
                         Append(@, "Failed to store some data for " \o name),
                      !.errors =
                         Append(@, "Failed to store some data for " \o name)]
              [] outcome = "exception" ->
                   [http EXCEPT
                      !.k = Len(FILES_CONFIG),
                      !.failures = Append(@, ErrorText(name)),
                      !.errors = Append(@, ErrorText(name))]
  /\ UNCHANGED notTrigger

\* read_and_store_files, lines 389-390, and etiquette_scheduled_job, lines
\* 399-401: the collected errors are raised as one exception, which the
\* scheduled job logs and raises again
LabelEnd ==
  /\ http.pc = "job"
  /\ http.endpoint \in LabelEndpoints
  /\ http.k = Len(FILES_CONFIG)
  /\ http' = [http EXCEPT
                !.pc = "respond",
                !.raised = IF http.errors # <<>>
                             THEN "Errors occurred: "
                                  \o join("; ", http.errors)
                             ELSE "none"]
  /\ UNCHANGED notTrigger

\* export_store, lines 191-214: the export of a store that fails raises
\* out of the loop (line 211), and the handler of line 213 logs the
\* exception without raising it again
ExportStore ==
  /\ http.pc = "job"
  /\ http.endpoint = "offline_inv"
  /\ IF http.k < NumStores
       THEN \E ok \in BOOLEAN :
              http' = IF ok THEN [http EXCEPT !.k = @ + 1]
                      ELSE [http EXCEPT
                              !.pc = "respond",
                              !.failures =
                                 Append(@, ErrorText(StoreName(http.k + 1)))]
       ELSE http' = [http EXCEPT !.pc = "respond"]
  /\ UNCHANGED notTrigger

\* check_all_stores, lines 215-226: the exception of a store is logged and
\* the loop goes on with the next store
DiffStore ==
  /\ http.pc = "job"
  /\ http.endpoint = "diff_inv"
  /\ IF http.k < NumStores
       THEN \E ok \in BOOLEAN :
              http' = IF ok THEN [http EXCEPT !.k = @ + 1]
                      ELSE [http EXCEPT
                              !.k = @ + 1,
                              !.failures =
                                 Append(@, ErrorText(StoreName(http.k + 1)))]
       ELSE http' = [http EXCEPT !.pc = "respond"]
  /\ UNCHANGED notTrigger

\* update_unknown_locations, lines 68-84: the exception of a phase is
\* logged and raised again
UnknownPhase ==
  /\ http.pc = "job"
  /\ http.endpoint = "unknown_inv"
  /\ IF http.k < Len(ResolverPhases)
       THEN \E ok \in BOOLEAN :
              http' = IF ok THEN [http EXCEPT !.k = @ + 1]
                      ELSE [http EXCEPT
                              !.pc = "respond",
                              !.failures =
                                 Append(@, ErrorText(ResolverPhases[http.k + 1])),
                              !.raised = ErrorText(ResolverPhases[http.k + 1])]
       ELSE http' = [http EXCEPT !.pc = "respond"]
  /\ UNCHANGED notTrigger

\* main.py, lines 50-54 and alike: return the message, or the error
Respond ==
  /\ http.pc = "respond"
  /\ http' = [http EXCEPT !.pc = "done", !.response = Answer(http.raised)]
  /\ UNCHANGED notTrigger

(***************************************************************************)
(* The location export (tasks/OfflineInv.py): export_store takes the       *)
(* stores of the registry in order; export_store_locations writes the      *)
(* export file of a store, uploads it over SFTP and mails it.  The first   *)
(* store whose export raises ends the run (line 211); export_store logs    *)
(* the exception and returns (lines 213-214).                              *)
(***************************************************************************)
notExport == <<syncVars, jobVars, dbVars, reconVars, resolverVars,
               reportVars, csvVars, applied, http, pairRuns>>

\* lines 113-115: temp_exports/store_<id>_locations_<timestamp>.csv
ExportFile(k) == <<"temp_exports", "store", k, "locations">>

NoExport ==
  [pc |-> "store_loop", k |-> 0, files |-> {}, sftp |-> "none",
   ended |-> <<>>]

\* how the export of store k ended: "sent", "empty", or what raised
ExportEnded(k, how) == [store |-> k, how |-> how]

\* lines 175-180: the finally clause removes the export file if it exists
Cleanup(files, k) == files \ {ExportFile(k)}

\* lines 191-198 and 100-106: the loop takes the next store, builds a
\* service with a client of its own and fetches the store's locations;
\* without locations the export returns a message before any file is
\* named
ExportFetch ==
  /\ exportRun.pc = "store_loop"
  /\ IF exportRun.k < NumStores
       THEN \E out \in {"locations", "empty", "fetch_failed"} :
              exportRun' =
                CASE out = "locations" ->
                       [exportRun EXCEPT !.pc = "save", !.k = @ + 1,
                                         !.sftp = "none"]
                  [] out = "empty" ->
                       [exportRun EXCEPT
                          !.k = @ + 1, !.sftp = "none",
                          !.ended = Append(@, ExportEnded(exportRun.k + 1,
                                                          "empty"))]
                  [] out = "fetch_failed" ->
                       [exportRun EXCEPT
                          !.pc = "run_done", !.k = @ + 1, !.sftp = "none",
                          !.ended = Append(@, ExportEnded(exportRun.k + 1,
                                                          "fetch_failed"))]
       ELSE exportRun' = [exportRun EXCEPT !.pc = "run_done"]
  /\ UNCHANGED notExport

\* lines 117-136: the rows are added and the file is saved inside the try
\* whose finally clause removes the file; a save that raises may have
\* created the file
ExportSave ==
  /\ exportRun.pc = "save"
  /\ \E saved \in BOOLEAN :
       IF saved
         THEN exportRun' =
                [exportRun EXCEPT
                   !.pc = "upload",
                   !.files = @ \cup {ExportFile(exportRun.k)}]
         ELSE \E created \in BOOLEAN :
                exportRun' =
                  [exportRun EXCEPT
                     !.pc = "run_done",
                     !.files =
                        Cleanup(IF created
                                  THEN @ \cup {ExportFile(exportRun.k)}
                                  ELSE @, exportRun.k),
                     !.ended = Append(@, ExportEnded(exportRun.k,
                                                     "save_failed"))]
  /\ UNCHANGED notExport

\* lines 138-156: connect and upload; SFTPClient.connect closes what it
\* opened when it fails (sftp.py lines 64-66), the finally clause of line
\* 155 closes the client, and a failure leaves through the outer finally
ExportUpload ==
  /\ exportRun.pc = "upload"
  /\ \E out \in {"connect_failed", "upload_failed", "ok"} :
       exportRun' =
         IF out = "ok"
           THEN [exportRun EXCEPT !.pc = "email", !.sftp = "closed"]
           ELSE [exportRun EXCEPT
                   !.pc = "run_done",
                   !.sftp = "closed",
                   !.files = Cleanup(@, exportRun.k),
                   !.ended = Append(@, ExportEnded(exportRun.k, out))]
  /\ UNCHANGED notExport

\* lines 158-180: the mail with the file attached, then the finally clause
ExportEmail ==
  /\ exportRun.pc = "email"
  /\ \E delivered \in BOOLEAN :
       exportRun' =
         [exportRun EXCEPT
            !.pc = IF delivered THEN "store_loop" ELSE "run_done",
            !.files = Cleanup(@, exportRun.k),
            !.ended = Append(@, ExportEnded(exportRun.k,
                                  IF delivered THEN "sent"
                                  ELSE "email_failed"))]
  /\ UNCHANGED notExport

(***************************************************************************)
(* Two runs of _update_locations_from_inventory on one table: the run the  *)
(* scheduler starts at 21:00 (scheduler.py lines 25-32) and the run of the *)
(* endpoint /manual/unknown_inv (main.py lines 75-83).  Each run has a     *)
(* session and locals of its own; the runs take turns at every await.  An  *)
(* update and its commit are one step: the rows an uncommitted update      *)
(* matched stay locked until the commit or the rollback.                   *)
(***************************************************************************)
notPair == <<syncVars, jobVars, dbVars, reconVars, resolverVars,
             reportVars, csvVars, applied, http, exportRun>>

PairIds == {1, 2}

\* the locals of a run before its first query
RunLocals ==
  [pc |-> "start", upc_to_item |-> EmptyMap, pending |-> {},
   total_updated |-> 0, returned |-> 0]

NoPair ==
  [table |-> <<>>, table0 |-> <<>>, catalog |-> {},
   run |-> [r \in PairIds |-> RunLocals], writes |-> <<>>]

\* lines 110-125 in run r: the rows the statement matches get the name of
\* the item, the time of the statement and 'system'
update_by(table, code, item, r) ==
  [k \in DOMAIN table |->
     IF k \in Targets(table, code)
       THEN [table[k] EXCEPT !.name = item,
                             !.updated_at = <<"run", r>>,
                             !.updated_by = "system"]
       ELSE table[k]]

\* lines 88-106 in run r
PairStart(r) ==
  /\ pairRuns.run[r].pc = "start"
  /\ pairRuns.table # <<>>
  /\ \E ok \in BOOLEAN :
       IF ~ok
         THEN pairRuns' = [pairRuns EXCEPT !.run[r].pc = "raised"]
         ELSE IF unknown_upcs(pairRuns.table) = {}
           THEN pairRuns' = [pairRuns EXCEPT !.run[r].pc = "done",
                                             !.run[r].returned = 0]
           ELSE \E m \in upc_to_item_maps(pairRuns.catalog,
                                          unknown_upcs(pairRuns.table)) :
                  pairRuns' = [pairRuns EXCEPT
                                 !.run[r].pc = "update",
                                 !.run[r].upc_to_item = m,
                                 !.run[r].pending = DOMAIN m,
                                 !.run[r].total_updated = 0]
  /\ UNCHANGED notPair

\* lines 109-127 in run r: one iteration of the loop; writes keeps, for
\* every row, the runs whose statements were committed on it; a failure
\* rolls the statement back (line 133) and raises
PairUpdate(r) ==
  /\ pairRuns.run[r].pc = "update"
  /\ pairRuns.run[r].pending # {}
  /\ \E code \in pairRuns.run[r].pending, ok \in BOOLEAN :
       IF ok
         THEN pairRuns' =
                [pairRuns EXCEPT
                   !.table = update_by(@, code,
                                       pairRuns.run[r].upc_to_item[code], r),
                   !.writes = [k \in DOMAIN @ |->
                                 IF k \in Targets(pairRuns.table, code)
                                   THEN Append(@[k], r)
                                   ELSE @[k]],
                   !.run[r].total_updated =
                      @ + rowcount(pairRuns.table, code),
                   !.run[r].pending = @ \ {code}]
         ELSE \E executed \in BOOLEAN :
                pairRuns' =
                  [pairRuns EXCEPT
                     !.table =
                        rollback(@, IF executed
                                      THEN update_by(@, code,
                                             pairRuns.run[r].upc_to_item[code],
                                             r)
                                      ELSE @),
                     !.run[r].pc = "raised"]
  /\ UNCHANGED notPair

\* line 129 in run r
PairReturn(r) ==
  /\ pairRuns.run[r].pc = "update"
  /\ pairRuns.run[r].pending = {}
  /\ pairRuns' = [pairRuns EXCEPT
                    !.run[r].pc = "done",
                    !.run[r].returned = pairRuns.run[r].total_updated]
  /\ UNCHANGED notPair
(***************************************************************************)
(* Specifications                                                          *)
(***************************************************************************)
\* the record sets handed to a direct call of post_data_with_retry
CallInputs ==
  {LabelDict}
  \cup {LabelRows(n, EmptyMap) :
          n \in {0, 1, BATCH_SIZE, BATCH_SIZE + 1, MaxRecords}}
  \cup {LabelRows(BATCH_SIZE + 1, r :> n) :
          r \in {1, BATCH_SIZE + 1}, n \in 1..2}
  \cup UNION {{WithoutSeparator(LabelRows(n, EmptyMap), S) :
                  S \in {{1}, {1, 2}, {n}}} : n \in {2, BATCH_SIZE + 1}}

IdleCall ==
  /\ batches = <<>>
  /\ i = 0
  /\ overall_success = TRUE
  /\ call = 0
  /\ attempt = 0
  /\ delay = initial_delay
  /\ success = FALSE
  /\ response = NoResponse
  /\ result = <<>>
  /\ events = <<>>
  /\ price_out = "none"
  /\ timeline = <<>>

IdleJob ==
  /\ ftp = "none"
  /\ fileIdx = 0
  /\ rAttempt = 0
  /\ rDelay = INITIAL_DELAY
  /\ errors = <<>>
  /\ raised = "none"
  /\ fileLog = <<>>
  /\ submittedStores = {}
  /\ scratch = {}

IdleLabel ==
  /\ pc = "idle"
  /\ caller = "direct"
  /\ include_price = TRUE
  /\ max_retries = MAX_RETRIES
  /\ initial_delay = INITIAL_DELAY
  /\ session_data = LabelRows(0, EmptyMap)
  /\ store_id = "0001"
  /\ IdleCall
  /\ IdleJob

IdleDb ==
  /\ locations = <<>>
  /\ inventory = {}

IdleRecon ==
  /\ rpc = "idle"
  /\ storeIdx = 0
  /\ db_quantities = EmptyMap
  /\ csv_quantities = EmptyMap
  /\ comparisons = <<>>
  /\ disk = {}
  /\ snapshot = <<>>
  /\ ftp_client = "closed"
  /\ emails = <<>>
  /\ steps = <<>>

IdleResolver ==
  /\ resolver_pc = "idle"
  /\ locations0 = <<>>
  /\ upc_to_item = EmptyMap
  /\ pending = {}
  /\ total_updated = 0
  /\ returned = "none"

NoRun == [ended |-> "none", table |-> <<>>, phases |-> <<>>]

IdleReport ==
  /\ remaining = <<>>
  /\ reports = <<>>
  /\ phases = <<>>
  /\ rerun = FALSE
  /\ first_run = NoRun

NoLast == [op |-> "none", arg |-> NoArg, raised |-> "none", value |-> NoValue,
           before |-> [headers |-> <<>>, data |-> <<>>], n |-> 0]

IdleCsv ==
  /\ headers = <<>>
  /\ data = <<>>
  /\ file_exists = FALSE
  /\ file = NoFile
  /\ last = NoLast

IdlePrepare ==
  applied = [include_price |-> TRUE, data |-> <<>>, prices |-> <<>>,
             price_ok |-> TRUE] @@ NotApplied

IdleTrigger == http = NoRequest

IdleExport == exportRun = NoExport

IdlePair == pairRuns = NoPair

\* ---- one call of post_data_with_retry ----------------------------------
InitSync ==
  /\ pc = "post_start"
  /\ caller = "direct"
  /\ include_price \in BOOLEAN
  /\ max_retries \in 1..MAX_RETRIES
  /\ initial_delay = INITIAL_DELAY
  /\ session_data \in CallInputs
  /\ store_id = "0001"
  /\ IdleCall
  /\ IdleJob
  /\ IdleDb
  /\ IdleRecon
  /\ IdleResolver
  /\ IdleReport
  /\ IdleCsv
  /\ IdlePrepare
  /\ IdleTrigger
  /\ IdleExport
  /\ IdlePair

NextSync ==
  \/ PostStart
  \/ NextBatch
  \/ ProcessBatch
  \/ SendAttempt
  \/ AfterSend
  \/ PostReturn

SpecSync == InitSync /\ [][NextSync]_vars

\* the same call, every step of which is taken in the end: the coroutine
\* is resumed when what it awaits is over, and each of its network calls
\* ends by its timeout at the latest
SpecSyncLive == InitSync /\ [][NextSync]_vars /\ WF_vars(NextSync)

\* ---- one run of read_and_store_files -----------------------------------
InitJob ==
  /\ pc = "job_start"
  /\ caller = "job"
  /\ include_price \in BOOLEAN
  /\ max_retries = MAX_RETRIES
  /\ initial_delay = INITIAL_DELAY
  /\ session_data = LabelRows(0, EmptyMap)
  /\ store_id = "none"
  /\ IdleCall
  /\ IdleJob
  /\ IdleDb
  /\ IdleRecon
  /\ IdleResolver
  /\ IdleReport
  /\ IdleCsv
  /\ IdlePrepare
  /\ IdleTrigger
  /\ IdleExport
  /\ IdlePair

NextJob ==
  \/ JobSetup
  \/ NextFile
  \/ RetrieveAttempt
  \/ PostStart
  \/ NextBatch
  \/ ProcessBatch
  \/ SendAttempt
  \/ AfterSend
  \/ PostReturn
  \/ JobFinally

SpecJob == InitJob /\ [][NextJob]_vars

\* ---- one call of process_csv_with_retry --------------------------------
\* lines 362-365: the call for one of the configured files, on the open
\* connection
InitRetrieve ==
  /\ pc = "retrieve"
  /\ caller = "job"
  /\ include_price \in BOOLEAN
  /\ max_retries = MAX_RETRIES
  /\ initial_delay = INITIAL_DELAY
  /\ session_data = LabelRows(0, EmptyMap)
  /\ fileIdx \in 1..Len(FILES_CONFIG)
  /\ store_id = FILES_CONFIG[fileIdx].store_id
  /\ IdleCall
  /\ ftp = "open"
  /\ rAttempt = 0
  /\ rDelay = INITIAL_DELAY
  /\ errors = <<>>
  /\ raised = "none"
  /\ fileLog = <<>>
  /\ submittedStores = {}
  /\ scratch = {}
  /\ IdleDb
  /\ IdleRecon
  /\ IdleResolver
  /\ IdleReport
  /\ IdleCsv
  /\ IdlePrepare
  /\ IdleTrigger
  /\ IdleExport
  /\ IdlePair

NextRetrieve == RetrieveAttempt

\* every attempt ends: the coroutine is resumed after each wait
SpecRetrieve == InitRetrieve /\ [][NextRetrieve]_vars /\ WF_vars(NextRetrieve)

\* ---- the diff of compare_inventory -------------------------------------
A1 == <<"A", "1">>
B2 == <<"B", "2">>
C3 == <<"C", " ", "3">>

DiffItems == {A1, B2, C3}

PartialMaps(K, V) == UNION {[D -> V] : D \in SUBSET K}

InitDiff ==
  /\ IdleLabel
  /\ IdleDb
  /\ IdleResolver
  /\ IdleReport
  /\ IdleCsv
  /\ IdlePrepare
  /\ IdleTrigger
  /\ IdleExport
  /\ IdlePair
  /\ rpc = "diff"
  /\ storeIdx = 1
  /\ db_quantities \in PartialMaps(DiffItems, 1..MaxCount)
  /\ csv_quantities \in PartialMaps(DiffItems, (0 - 1)..MaxCount)
  /\ comparisons = <<>>
  /\ disk = {}
  /\ snapshot = <<>>
  /\ ftp_client = "closed"
  /\ emails = <<>>
  /\ steps = <<>>

NextDiff == Diff

SpecDiff == InitDiff /\ [][NextDiff]_vars

\* ---- one run of check_all_stores ---------------------------------------
ReconTables ==
  { <<>>,
    << Location(1, "u1", A1, 1, 0),
       Location(2, "u1", A1, 1, 0),
       Location(3, "u2", B2, 1, 1),
       Location(4, "u3", inconnu, 1, 0),
       Location(5, "u1", A1, 2, 0) >>,
    << Location(1, "u2", B2, 1, 0),
       Location(2, "u4", C3, 2, 0) >> }

InitRecon ==
  /\ IdleLabel
  /\ IdleResolver
  /\ IdleReport
  /\ IdleCsv
  /\ IdlePrepare
  /\ IdleTrigger
  /\ IdleExport
  /\ IdlePair
  /\ locations \in ReconTables
  /\ inventory = {}
  /\ rpc = "store_loop"
  /\ storeIdx = 0
  /\ db_quantities = EmptyMap
  /\ csv_quantities = EmptyMap
  /\ comparisons = <<>>
  /\ disk = {}
  /\ snapshot = <<>>
  /\ ftp_client = "closed"
  /\ emails = <<>>
  /\ steps = <<>>

NextRecon ==
  \/ NextStore
  \/ FetchAuthoritative
  \/ Download
  \/ Parse
  \/ Diff
  \/ BuildReport
  \/ SendReport

SpecRecon == InitRecon /\ [][NextRecon]_vars

\* ---- one run of phase 1 of the resolver --------------------------------
Widget == <<"W">>
Gadget == <<"G">>

\* the tables of NumLocs rows of store 1
ResolverTables ==
  {[k \in 1..NumLocs |->
      Location(k, f[k].upc, f[k].name, 1, f[k].is_archived)] :
     f \in [1..NumLocs -> [upc : {"u1", "u2"},
                           name : {inconnu, Widget},
                           is_archived : {0, 1}]]}

\* the catalogs: two names for u1, one for u2, and a catalog item that is
\* itself named 'inconnu'
Catalogs ==
  SUBSET {[upc |-> "u1", item |-> Widget],
          [upc |-> "u1", item |-> Gadget],
          [upc |-> "u2", item |-> Widget],
          [upc |-> "u2", item |-> inconnu]}

InitResolver ==
  /\ IdleLabel
  /\ IdleRecon
  /\ locations \in ResolverTables
  /\ inventory \in Catalogs
  /\ resolver_pc = "start"
  /\ locations0 = locations
  /\ upc_to_item = EmptyMap
  /\ pending = {}
  /\ total_updated = 0
  /\ returned = "none"
  /\ IdleReport
  /\ IdleCsv
  /\ IdlePrepare
  /\ IdleTrigger
  /\ IdleExport
  /\ IdlePair

NextResolver ==
  \/ ResolveStart
  \/ UpdateCode
  \/ ResolveReturn

SpecResolver == InitResolver /\ [][NextResolver]_vars

\* ---- update_unknown_locations, called once and then once more ----------
InitUnknown == InitResolver

NextUnknown ==
  \/ ResolveStart
  \/ UpdateCode
  \/ ResolveReturn
  \/ Phase2
  \/ SendUnknownReport
  \/ Rerun

SpecUnknown == InitUnknown /\ [][NextUnknown]_vars


\* ---- one CSVHandler ----------------------------------------------------
\* a file written by another program: no byte-order mark, one row
SampleFile == [exists |-> TRUE, bom |-> FALSE, header |-> <<"a", "b">>,
               lines |-> << <<"7", "x">> >>]

\* lines 10-21: the handler after construction, with or without headers,
\* for a file that exists or not
InitCsv ==
  /\ headers \in {<<>>, <<"a", "b">>}
  /\ data = <<>>
  /\ file \in {NoFile, SampleFile}
  /\ file_exists = file.exists
  /\ last = [NoLast EXCEPT !.before.headers = headers]
  /\ IdleLabel
  /\ IdleDb
  /\ IdleRecon
  /\ IdleResolver
  /\ IdleReport
  /\ IdlePrepare
  /\ IdleTrigger
  /\ IdleExport
  /\ IdlePair

NextCsv ==
  \/ AddRow
  \/ AddRows
  \/ UpdateRow
  \/ DeleteRow
  \/ GetRow
  \/ GetColumn
  \/ AddColumn
  \/ Save
  \/ Load

SpecCsv == InitCsv /\ [][NextCsv]_vars

\* ---- one application of a function that prepares a payload -------------
InitPrepare ==
  /\ applied \in {a @@ NotApplied : a \in Args}
  /\ IdleTrigger
  /\ IdleExport
  /\ IdlePair
  /\ IdleLabel
  /\ IdleDb
  /\ IdleRecon
  /\ IdleResolver
  /\ IdleReport
  /\ IdleCsv

NextPrepare ==
  \/ ConvertKeys
  \/ CleanData
  \/ MergePriceData
  \/ PreparePayload

SpecPrepare == InitPrepare /\ [][NextPrepare]_vars

\* ---- one request to a manual trigger -----------------------------------
InitTrigger ==
  /\ http = NoRequest
  /\ IdleExport
  /\ IdlePair
  /\ IdleLabel
  /\ IdleDb
  /\ IdleRecon
  /\ IdleResolver
  /\ IdleReport
  /\ IdleCsv
  /\ IdlePrepare

NextTrigger ==
  \/ Request
  \/ LabelFile
  \/ LabelEnd
  \/ ExportStore
  \/ DiffStore
  \/ UnknownPhase
  \/ Respond

SpecTrigger == InitTrigger /\ [][NextTrigger]_vars

\* ---- one run of export_store ------------------------------------------
InitExport ==
  /\ IdleLabel
  /\ IdleDb
  /\ IdleRecon
  /\ IdleResolver
  /\ IdleReport
  /\ IdleCsv
  /\ IdlePrepare
  /\ IdleTrigger
  /\ IdlePair
  /\ exportRun = NoExport

NextExport ==
  \/ ExportFetch
  \/ ExportSave
  \/ ExportUpload
  \/ ExportEmail

SpecExport == InitExport /\ [][NextExport]_vars

\* ---- two interleaved runs of phase 1 of the resolver -------------------
InitPair ==
  /\ IdleLabel
  /\ IdleDb
  /\ IdleRecon
  /\ IdleResolver
  /\ IdleReport
  /\ IdleCsv
  /\ IdlePrepare
  /\ IdleTrigger
  /\ IdleExport
  /\ \E t \in ResolverTables, c \in Catalogs :
       pairRuns = [NoPair EXCEPT !.table = t, !.table0 = t, !.catalog = c,
                                 !.writes = [k \in DOMAIN t |-> <<>>]]

NextPair ==
  \/ \E r \in PairIds : PairStart(r)
  \/ \E r \in PairIds : PairUpdate(r)
  \/ \E r \in PairIds : PairReturn(r)

SpecPair == InitPair /\ [][NextPair]_vars
(***************************************************************************)
(* Properties of post_data_with_retry (SpecSync)                           *)
(***************************************************************************)
\* the record set of the call and its size
Data == data_to_process(session_data)

Returned == pc = "call_done"

Submissions(b) == {k \in DOMAIN events :
                     events[k].t = "submit" /\ events[k].batch = b}

\* batch b succeeded: one of its submissions was accepted
BatchSucceeded(b) == \E k \in Submissions(b) : events[k].ok

\* the final retry attempt of batch b was made and failed
FinalAttemptFailed(b) ==
  /\ Submissions(b) # {}
  /\ \E k \in Submissions(b) :
       /\ ~events[k].ok
       /\ \A j \in Submissions(b) : j <= k

\* C1 as stated: post_data_with_retry returns success iff every batch
\* succeeded, and returns failure iff the final retry attempt of at least
\* one batch failed.
C1_AsStated ==
  Returned =>
    /\ result = <<TRUE>> <=> \A b \in 1..Ceil(Len(Data), BATCH_SIZE) :
                           BatchSucceeded(b)
    /\ result = <<FALSE>> <=> \E b \in 1..Ceil(Len(Data), BATCH_SIZE) :
                            FinalAttemptFailed(b)

\* C1 (amended): post_data_with_retry returns success iff every batch
\* succeeded (one of its submissions was accepted); it returns failure iff
\* at least one batch failed, because its final retry attempt failed or
\* because its price step failed and nothing was submitted for it.
C1_SuccessIffEveryBatchSucceeded ==
  Returned =>
    /\ result \in {<<TRUE>>, <<FALSE>>}
    /\ result = <<TRUE>> <=> \A b \in 1..Ceil(Len(Data), BATCH_SIZE) :
                           BatchSucceeded(b)
    /\ result = <<FALSE>> <=> \E b \in 1..Ceil(Len(Data), BATCH_SIZE) :
                            \/ FinalAttemptFailed(b)
                            \/ include_price /\ Submissions(b) = {}

\* a call that returned failure after a batch whose every attempt failed
\* was followed by a batch that was accepted
C1_Witness ==
  /\ Returned
  /\ result = <<FALSE>>
  /\ FinalAttemptFailed(1)
  /\ BatchSucceeded(2)

\* the call is over: it returned, or an exception left it
CallEnded == pc \in {"call_done", "call_raised"}

\* C2 as stated: post_data_with_retry is best-effort and ordered: the
\* events of the batches occur in batch order, nothing happens for a batch
\* after its final outcome, a batch is submitted only once the batch
\* before it has its final outcome, and when the call is over every batch
\* of the partition has been processed exactly once, so that no batch
\* aborts the run.
C2_AsStated ==
  /\ \A j, k \in DOMAIN events :
       j < k =>
         /\ events[j].batch <= events[k].batch
         /\ events[j].t = "final" => events[j].batch < events[k].batch
  /\ \A k \in DOMAIN events :
       events[k].batch > 1 =>
         \E j \in 1..(k - 1) :
           events[j].t = "final" /\ events[j].batch = events[k].batch - 1
  /\ CallEnded =>
       \A b \in 1..Ceil(Len(Data), BATCH_SIZE) :
         Cardinality({k \in DOMAIN events :
                        events[k].t = "final" /\ events[k].batch = b}) = 1

GoodResponse ==
  /\ response.transport = "ok"
  /\ response.status = 200
  /\ response.body = "dict_ec0"

\* C4: _send_batch_to_api reports an attempt as accepted only when the
\* response has status 200 and its body is an object with error_code 0;
\* after a transport failure, another status, a non-zero or missing
\* error_code or a malformed body the attempt is recorded as failed, and
\* the call returns true only on an accepted attempt.
C4_AcceptedOnlyOn200AndZero ==
  /\ (events # <<>> /\ Last(events).t = "submit") =>
       (Last(events).ok <=> GoodResponse)
  /\ (pc = "sent" /\ success) => GoodResponse
  /\ (pc = "sent" /\ ~GoodResponse) => ~success

\* a send that returned true after a rejected attempt
C4_Witness ==
  /\ pc = "sent"
  /\ success
  /\ GoodResponse
  /\ \E k \in DOMAIN events : events[k] = Submit(i, FALSE)

(***************************************************************************)
(* Properties of read_and_store_files (SpecJob)                            *)
(***************************************************************************)
JobEnded == pc \in {"job_done", "job_raised"} /\ raised # "NameError"

FileFailed(e) == ~e.retrieved \/ ~e.stored

\* C5 as stated: in read_and_store_files a file whose retrieval or
\* submission fails does not stop the run: once the connection is set up
\* the files are taken once each in configuration order, nothing is
\* submitted for a file whose retrieval failed, and at the end every
\* configured file has been attempted and the job raises the aggregated
\* error iff at least one file failed.
C5_AsStated ==
  /\ \A k \in DOMAIN fileLog :
       /\ k <= Len(FILES_CONFIG)
       /\ fileLog[k].file = FILES_CONFIG[k].file
       /\ ~fileLog[k].retrieved => fileLog[k].store_id \notin submittedStores
  /\ JobEnded =>
       /\ Len(fileLog) = Len(FILES_CONFIG)
       /\ pc = "job_raised" <=>
            \E k \in DOMAIN fileLog : FileFailed(fileLog[k])

(***************************************************************************)
(* Properties of the reconciliation (SpecDiff, SpecRecon)                  *)
(***************************************************************************)
CountIn(m, x) == IF x \in DOMAIN m THEN m[x] ELSE 0

Discrepant == {x \in DOMAIN db_quantities \cup DOMAIN csv_quantities :
                 CountIn(db_quantities, x) # CountIn(csv_quantities, x)}

\* C6: compare_inventory emits one comparison for exactly the items of the
\* union of both sources whose counts differ, a missing item counting as
\* 0 and difference = csv_count - db_count; an item only in the snapshot
\* with a count Q other than 0 yields (0, Q, Q); items with equal counts do
\* not appear.
C6_DiffExactlyDiscrepancies ==
  rpc = "notify" =>
    /\ {comparisons[k].item_name : k \in DOMAIN comparisons} = Discrepant
    /\ Len(comparisons) = Cardinality(Discrepant)
    /\ \A k \in DOMAIN comparisons :
         LET c == comparisons[k]
         IN /\ c.db_count = CountIn(db_quantities, c.item_name)
            /\ c.csv_count = CountIn(csv_quantities, c.item_name)
            /\ c.difference = c.csv_count - c.db_count
            /\ c.difference # 0
            /\ c.store_id = store.id
    /\ \A x \in DOMAIN csv_quantities \ DOMAIN db_quantities :
         csv_quantities[x] # 0 =>
           \E k \in DOMAIN comparisons :
             /\ comparisons[k].item_name = x
             /\ comparisons[k].db_count = 0
             /\ comparisons[k].csv_count = csv_quantities[x]
             /\ comparisons[k].difference = csv_quantities[x]

\* a diff with an item only in the snapshot, an item only in the database
\* and an item with equal counts that is left out
C6_Witness ==
  /\ rpc = "notify"
  /\ A1 \in DOMAIN csv_quantities \ DOMAIN db_quantities
  /\ B2 \in DOMAIN db_quantities \ DOMAIN csv_quantities
  /\ C3 \in DOMAIN db_quantities \cap DOMAIN csv_quantities
  /\ db_quantities[C3] = csv_quantities[C3]
  /\ Len(comparisons) = 2
  /\ \E k \in DOMAIN comparisons :
       /\ comparisons[k].item_name = A1
       /\ comparisons[k].difference = 2

StepsOf(s) == SelectSeq(steps, LAMBDA e : e.store = s)

RunDone == rpc = "run_done"

\* C7: a failure in any step for one store is contained to that store:
\* the stores are processed in registry order and, when the run ends,
\* every store of the registry was processed exactly once.
C7_EveryStoreProcessedOnce ==
  /\ \A j, k \in DOMAIN steps : j < k => steps[j].store <= steps[k].store
  /\ \A k \in DOMAIN steps : steps[k].store \in 1..storeIdx
  /\ RunDone =>
       \A s \in 1..NumStores :
         /\ stores[s].id = s
         /\ Cardinality({k \in DOMAIN steps :
                           /\ steps[k].store = s
                           /\ steps[k].step = "FETCH_AUTHORITATIVE"}) = 1

\* the run ended with the first store failed and the second one done
C7_Witness ==
  /\ RunDone
  /\ \E k \in DOMAIN steps : steps[k].store = 1 /\ ~steps[k].ok
  /\ \E k \in DOMAIN steps : steps[k] = Step(stores[2], "DONE", TRUE)

StepOrder == <<"FETCH_AUTHORITATIVE", "FETCH_SNAPSHOT", "DIFF", "NOTIFY",
               "DONE">>

\* C8: for each store the steps occur in the order FETCH_AUTHORITATIVE,
\* FETCH_SNAPSHOT, DIFF, NOTIFY, DONE: a step is taken only after the
\* previous step of that store succeeded, nothing follows a failed step,
\* and an email exists only for a store whose fetches and diff succeeded.
C8_StepsInOrder ==
  /\ \A s \in 1..NumStores :
       LET mine == StepsOf(s)
       IN /\ Len(mine) <= Len(StepOrder)
          /\ \A k \in DOMAIN mine :
               /\ mine[k].step = StepOrder[k]
               /\ k < Len(mine) => mine[k].ok
  /\ \A k \in DOMAIN emails :
       LET mine == StepsOf(emails[k].store)
       IN /\ Len(mine) >= 3
          /\ \A j \in 1..3 : mine[j].ok

\* a store whose snapshot fetch failed after its database fetch succeeded,
\* followed by a store that went through all the steps
C8_Witness ==
  /\ RunDone
  /\ StepsOf(1) = << Step(stores[1], "FETCH_AUTHORITATIVE", TRUE),
                     Step(stores[1], "FETCH_SNAPSHOT", FALSE) >>
  /\ Len(StepsOf(2)) = 5
  /\ emails # <<>>

\* the rows are in ascending order of difference
Ascending(rows) ==
  \A j, k \in DOMAIN rows : j < k => rows[j].difference <= rows[k].difference

\* C9: send_notification sends an email iff the list of discrepancies is
\* not empty: with none it creates no report file, hands nothing to the
\* email service and raises nothing; a notification that ends without an
\* error has delivered an email iff there were discrepancies, and every
\* email carries the discrepancies, sorted by difference, to the
\* recipient of that store.
C9_NotifyIffDiscrepancies ==
  /\ \A k \in DOMAIN emails :
       /\ emails[k].rows # <<>>
       /\ emails[k].to = stores[emails[k].store].recipient
       /\ Ascending(emails[k].rows)
  /\ (storeIdx >= 1 /\ ~RunDone /\ ReportFile(store) \in disk) =>
       comparisons # <<>>
  /\ (storeIdx >= 1 /\ rpc = "send") => comparisons # <<>>
  /\ (storeIdx >= 1 /\ rpc = "store_loop") =>
       /\ Step(store, "NOTIFY", TRUE) \in Range(steps) =>
            (comparisons # <<>> <=>
               \E k \in DOMAIN emails :
                 emails[k].store = store.id /\ emails[k].delivered)
       /\ Step(store, "NOTIFY", FALSE) \in Range(steps) =>
            comparisons # <<>>
       /\ \A k \in DOMAIN emails :
            emails[k].store = store.id =>
              /\ Len(emails[k].rows) = Len(comparisons)
              /\ Range(emails[k].rows) = Range(comparisons)

\* a run in which one store had nothing to report and was skipped and
\* another store's discrepancies were sent
C9_Witness ==
  /\ RunDone
  /\ Step(stores[1], "NOTIFY", TRUE) \in Range(steps)
  /\ \A k \in DOMAIN emails : emails[k].store # 1
  /\ \E k \in DOMAIN emails :
       /\ emails[k].store = 2
       /\ emails[k].delivered
       /\ Len(emails[k].rows) >= 2

(***************************************************************************)
(* Properties of phase 1 of the resolver (SpecResolver)                    *)
(***************************************************************************)
Phase1Done == resolver_pc = "done"

\* the rows the run changed
Mutated == {k \in DOMAIN locations0 : locations[k] # locations0[k]}

\* the names the catalog gives for a code
CatalogNames(code) == {r.item : r \in {c \in inventory : c.upc = code}}

\* C10: after a successful phase 1 every non-archived placeholder record
\* whose code has a match in the catalog carries a name the catalog gives
\* for that code and is stamped with the automated actor, and the returned
\* count is the number of records that were mutated.
C10_MatchedPlaceholdersResolved ==
  Phase1Done =>
    /\ \A k \in DOMAIN locations0 :
         (/\ locations0[k].name = inconnu
          /\ locations0[k].is_archived = 0
          /\ CatalogNames(locations0[k].upc) # {}) =>
           /\ locations[k].name \in CatalogNames(locations0[k].upc)
           /\ locations[k].updated_by = "system"
    /\ returned = Cardinality(Mutated)

\* a run that resolved two records of one code and left an unmatched
\* placeholder alone
C10_Witness ==
  /\ Phase1Done
  /\ returned = 2
  /\ \E k \in DOMAIN locations : locations[k].name = inconnu
                                  /\ locations[k].is_archived = 0

(***************************************************************************)
(* Properties of update_unknown_locations (SpecUnknown)                    *)
(***************************************************************************)
\* the record the resolver may not touch: archived, already named, or a
\* placeholder whose code the catalog does not have
OutOfScope(row) ==
  \/ row.is_archived # 0
  \/ row.name # inconnu
  \/ CatalogNames(row.upc) = {}

\* the fields of a record other than name, updated_by and updated_at
Kept(row) == <<row.id, row.upc, row.store, row.full_location,
               row.created_by, row.created_at, row.is_archived>>

\* C11: the resolver never deletes or creates a location record and
\* changes only name, updated_by and updated_at of the records it resolves;
\* every archived record, every already-named record and every placeholder
\* whose code has no catalog match is exactly as it was before the run,
\* at every point of the run and of the run after it.
C11_FrameOfResolver ==
  /\ DOMAIN locations = DOMAIN locations0
  /\ \A k \in DOMAIN locations0 :
       /\ Kept(locations[k]) = Kept(locations0[k])
       /\ OutOfScope(locations0[k]) => locations[k] = locations0[k]
       /\ locations[k] # locations0[k] =>
            /\ locations[k].updated_by = "system"
            /\ locations[k].name \in CatalogNames(locations0[k].upc)

\* a finished run that resolved a record and left alone an archived
\* placeholder of a matched code, a named record and an unmatched code
C11_Witness ==
  /\ resolver_pc = "run_done"
  /\ \E k \in DOMAIN locations : locations[k] # locations0[k]
  /\ \E k \in DOMAIN locations :
       /\ locations0[k].name = inconnu
       /\ locations0[k].is_archived = 1
       /\ CatalogNames(locations0[k].upc) # {}
       /\ locations[k] = locations0[k]
  /\ \E k \in DOMAIN locations : locations0[k].name = Widget

\* C12 as stated: a second run right after a successful run mutates no
\* row, returns count 0 from phase 1 and leaves every record exactly as
\* the first run left it.
C12_AsStated ==
  (rerun /\ first_run.ended = "run_done") =>
    /\ locations = first_run.table
    /\ resolver_pc = "done" => returned = 0

\* C13: in update_unknown_locations phase 2 runs only after phase 1 has
\* returned and the report only after phase 2 has returned; a run that
\* ends without error has sent the report iff a non-archived placeholder
\* remains after phase 1; with none remaining no report file is created
\* and nothing is sent; when phase 1 fails the run raises and no report is
\* created or sent.
C13_ReportIffRemaining ==
  /\ \A k \in DOMAIN phases :
       /\ k = 1 => phases[k] \in {"phase1_returned", "phase1_raised"}
       /\ k = 2 => /\ phases[1] = "phase1_returned"
                   /\ phases[k] \in {"phase2_returned", "phase2_raised"}
       /\ k = 3 => /\ phases[2] = "phase2_returned"
                   /\ phases[k] \in {"report_sent", "report_raised"}
       /\ k <= 3
  /\ \A k \in DOMAIN reports :
       /\ reports[k].rows # <<>>
       /\ reports[k].to = stores[1].recipient
       /\ reports[k].run = ThisRun =>
            /\ Len(phases) = 3
            /\ {reports[k].rows[j].upc : j \in DOMAIN reports[k].rows}
                 = unknown_upcs(locations)
  /\ resolver_pc = "run_done" =>
       (unknown_upcs(locations) # {} <=>
          \E k \in DOMAIN reports :
            reports[k].run = ThisRun /\ reports[k].delivered)
  /\ (resolver_pc \in {"run_done", "run_raised"}
        /\ Len(phases) >= 2 /\ phases[2] = "phase2_returned"
        /\ unknown_upcs(locations) = {}) =>
       /\ UnknownReportFile \notin disk
       /\ \A k \in DOMAIN reports : reports[k].run # ThisRun
  /\ resolver_pc = "raised" =>
       /\ phases = <<"phase1_raised">>
       /\ UnknownReportFile \notin disk
       /\ \A k \in DOMAIN reports : reports[k].run # ThisRun

\* every placeholder had a catalog match: phase 1 resolved them all, none
\* remains and the first run ended without a report
C13_Witness ==
  /\ resolver_pc = "run_done"
  /\ ~rerun
  /\ \E k \in DOMAIN locations0 :
       locations0[k].name = inconnu /\ locations0[k].is_archived = 0
  /\ returned >= 1
  /\ unknown_upcs(locations) = {}
  /\ phases = <<"phase1_returned", "phase2_returned">>
  /\ reports = <<>>


(***************************************************************************)
(* CSVHandler                                                              *)
(***************************************************************************)
\* the header set of a handler: the headers it holds, or else the keys of
\* its first row
HeaderSet ==
  IF headers # <<>> THEN Range(headers)
  ELSE IF data # <<>> THEN DOMAIN data[1] ELSE {}

\* C14, as the specification states it: whatever operations were called,
\* the key set of every stored row equals the header set of the handler,
\* supplied at creation or taken from the first row.
C14_AsStated == \A k \in DOMAIN data : DOMAIN data[k] = HeaderSet

\* an index outside 0..len-1 of the rows the handler held before the call
OutOfRange(index, rows) == index < 0 \/ index >= Len(rows)

\* the row handed to the last add_row or update_row has another key set
\* than the headers the handler held
KeysDiffer ==
  /\ last.op \in {"add_row", "update_row"}
  /\ last.before.headers # <<>>
  /\ DOMAIN last.arg.rows[1] # Range(last.before.headers)

IndexOutside ==
  /\ last.op \in {"update_row", "delete_row", "get_row"}
  /\ OutOfRange(last.arg.index, last.before.data)

\* C15: an operation that fails leaves headers and rows as they were;
\* add_row and update_row with a key set other than the fixed header set
\* raise ValueError, and update_row, delete_row and get_row with an index
\* outside 0..len-1 (negative ones included) raise IndexError.
C15_FailingOperationChangesNothing ==
  /\ (last.op \in {"add_row", "update_row", "delete_row", "get_row"}
        /\ last.raised # "none") =>
       /\ headers = last.before.headers
       /\ data = last.before.data
  /\ IndexOutside => last.raised = "IndexError"
  /\ (KeysDiffer /\ ~IndexOutside) => last.raised = "ValueError"
  /\ (last.op \in {"add_row", "update_row", "delete_row", "get_row"}
        /\ ~KeysDiffer /\ ~IndexOutside) => last.raised = "none"

\* update_row(-1, row) on a handler with two rows, where Python's own
\* indexing would have replaced the last row: IndexError, nothing replaced
C15_Witness ==
  /\ last.op = "update_row"
  /\ last.arg.index = -1
  /\ Len(last.before.data) = 2
  /\ last.arg.rows[1] # last.before.data[2]
  /\ last.raised = "IndexError"
  /\ data = last.before.data

\* the file is what save writes for the handler as it was before the last
\* operation, and that save ends without error
SavedBefore ==
  /\ save(last.before).raised = "none"
  /\ file = save(last.before).file

\* header names equal up to the byte-order mark in front of the first one
SameHeaders(loaded, names) ==
  \/ loaded = names
  \/ loaded = read_fieldnames([bom |-> TRUE, header |-> names])

\* row values equal up to their conversion to text
SameRows(loaded, names, rows) ==
  /\ Len(loaded) = Len(rows)
  /\ \A k \in DOMAIN rows :
       /\ DOMAIN rows[k] = Range(names)
       /\ \A j \in DOMAIN names :
            /\ headers[j] \in DOMAIN loaded[k]
            /\ loaded[k][headers[j]].v = to_text(rows[k][names[j]])

\* C16, as the specification states it: a load of the file that a save of
\* the handler has just written ends without error and leaves the same
\* headers in the same order and the same rows in the same order (up to
\* the encoding), whether or not the file existed before the save.
C16_AsStated ==
  (last.op = "load" /\ SavedBefore) =>
    /\ last.raised = "none"
    /\ SameHeaders(headers, fieldnames(last.before))
    /\ SameRows(data, fieldnames(last.before), last.before.data)


\* the headers the handler had before the last operation, those inferred
\* from its first row when it held none
HeadersBefore == inferred_headers(last.before)

\* C17: add_column(name, default) with a name that is not a header appends
\* name to the headers and gives every existing row the value default
\* under name, the other values staying; with a name that is a header
\* already, as in a second call, it changes no header and no row value.
C17_AddColumnBackfillsOnce ==
  last.op = "add_column" =>
    IF last.arg.name \notin Range(HeadersBefore)
      THEN /\ headers = Append(HeadersBefore, last.arg.name)
           /\ Len(data) = Len(last.before.data)
           /\ \A k \in DOMAIN data :
                /\ DOMAIN data[k] =
                     DOMAIN last.before.data[k] \cup {last.arg.name}
                /\ data[k][last.arg.name] = last.arg.default
                /\ \A f \in DOMAIN last.before.data[k] \ {last.arg.name} :
                     data[k][f] = last.before.data[k][f]
      ELSE /\ headers = HeadersBefore
           /\ data = last.before.data

\* the second add_column("d", ...) on a handler with two rows, with
\* another default than the one the rows hold under "d"
C17_Witness ==
  /\ last.op = "add_column"
  /\ last.arg.name = "d"
  /\ "d" \in Range(last.before.headers)
  /\ Len(data) = 2
  /\ \A k \in DOMAIN data :
       "d" \in DOMAIN data[k] /\ data[k]["d"] # last.arg.default
  /\ headers = last.before.headers

(***************************************************************************)
(* The functions that prepare a payload                                    *)
(***************************************************************************)
\* the fields of a record that the mapping of the controller has
MappedFields(item) ==
  DOMAIN item \cap DOMAIN key_mapping(applied.include_price)

\* C18: convert_keys returns one record per input record, in input order;
\* the keys of an output record are the mapped keys of the input fields
\* the mapping has, each with the value of its field, so that no output
\* key is outside the mapping and the other fields are dropped.
C18_ConvertKeysRenamesMappedFields ==
  applied.op = "convert_keys" =>
    /\ Len(applied.out) = Len(applied.data)
    /\ \A k \in DOMAIN applied.data :
         LET item == applied.data[k]
             mapping == key_mapping(applied.include_price)
         IN /\ DOMAIN applied.out[k] = {mapping[f] : f \in MappedFields(item)}
            /\ DOMAIN applied.out[k] \subseteq Range(mapping)
            /\ Cardinality(DOMAIN applied.out[k])
                 = Cardinality(MappedFields(item))
            /\ \A f \in MappedFields(item) :
                 applied.out[k][mapping[f]] = item[f]

\* two records, the first with an unmapped field Extra, the second with a
\* Price that the mapping without prices drops
C18_Witness ==
  /\ applied.op = "convert_keys"
  /\ ~applied.include_price
  /\ Len(applied.data) = 2
  /\ "Extra" \in DOMAIN applied.data[1]
  /\ "Price" \in DOMAIN applied.data[2]
  /\ DOMAIN applied.out[1] = {"pi", "kc"}
  /\ DOMAIN applied.out[2] = {"pi", "pc"}

\* the price records whose part number is the one of a primary record
MatchesOf(item) ==
  {j \in DOMAIN applied.prices :
     applied.prices[j]["Part Number"] = item["Part Number"]}

\* item overlaid with every field of price except the part number
Overlaid(item, price) ==
  [f \in DOMAIN item \cup (DOMAIN price \ {"Part Number"}) |->
     IF f \in DOMAIN price \ {"Part Number"} THEN price[f] ELSE item[f]]

\* C19: merge_price_data returns one record per primary record, in primary
\* order; a record without price record equals its input (no Price field
\* is added), a record with one equals its input overlaid with the fields
\* of a price record of its part number, the part number excepted; the
\* two lists handed in are not modified.
C19_MergeKeepsUnmatchedOverlaysMatched ==
  applied.op = "merge_price_data" =>
    /\ Len(applied.out) = Len(applied.data)
    /\ \A k \in DOMAIN applied.data :
         LET item == applied.data[k]
         IN /\ applied.out[k]["Part Number"] = item["Part Number"]
            /\ MatchesOf(item) = {} => applied.out[k] = item
            /\ MatchesOf(item) # {} =>
                 \E j \in MatchesOf(item) :
                   applied.out[k] = Overlaid(item, applied.prices[j])
    /\ applied.data_after = applied.data
    /\ applied.prices_after = applied.prices

\* two primary records and one price record: the first record, which has
\* a Price already, is overlaid with the price record of its part number,
\* the second, of another part, is left as it was, without Price
C19_Witness ==
  /\ applied.op = "merge_price_data"
  /\ Len(applied.data) = 2
  /\ applied.data[1]["Part Number"] = Str("B 2")
  /\ applied.data[2]["Part Number"] = Str("A 1")
  /\ Len(applied.prices) = 1
  /\ applied.prices[1]["Part Number"] = Str("B 2")
  /\ "Price" \in DOMAIN applied.data[1]
  /\ applied.out[1]["Price"] = NaN
  /\ applied.out[1]["Value"] = StrX
  /\ applied.out[2] = applied.data[2]
  /\ "Price" \notin DOMAIN applied.out[2]

\* the value a payload item is built from: the one of the price record
\* when the lookup is enabled and the price record has the field, else
\* the one of the batch record
SourceValue(item, f) ==
  IF applied.include_price /\ MatchesOf(item) # {}
       /\ f \in DOMAIN price_of(applied.prices, item["Part Number"])
       /\ f # "Part Number"
    THEN price_of(applied.prices, item["Part Number"])[f]
    ELSE item[f]

\* C20: in every payload that is built for a batch, with the price lookup
\* enabled or not, no item has a null or not-a-number value: a field
\* whose value after the merge is null or not-a-number carries 0.
C20_NoNullInPayload ==
  (applied.op = "process_batch" /\ applied.payload.built) =>
    /\ Len(applied.payload.f1) = Len(applied.data)
    /\ \A k \in DOMAIN applied.payload.f1 :
         LET product == applied.payload.f1[k]
             mapping == key_mapping(applied.include_price)
         IN /\ \A key \in DOMAIN product : ~is_na(product[key])
            /\ \A f \in DOMAIN mapping :
                 (/\ mapping[f] \in DOMAIN product
                  /\ f \in DOMAIN applied.data[k]
                  /\ is_na(SourceValue(applied.data[k], f))) =>
                   product[mapping[f]] = Zero

\* the lookup is enabled and gave a null price for the part of a record
\* whose Value is null too: the payload carries 0 for both
C20_Witness ==
  /\ applied.op = "process_batch"
  /\ applied.include_price
  /\ applied.payload.built
  /\ Len(applied.data) = 1
  /\ "Value" \in DOMAIN applied.data[1]
  /\ applied.data[1]["Value"] = None
  /\ Len(applied.prices) = 1
  /\ applied.prices[1]["Price"] = None
  /\ applied.payload.f1[1]["pp"] = Zero
  /\ applied.payload.f1[1]["kc"] = Zero

(***************************************************************************)
(* Manual triggers                                                         *)
(***************************************************************************)
\* C21: a manually triggered job answers with the success message when its
\* run succeeded and with an error carrying the text of the error when its
\* run failed.
C21_AsStated ==
  http.pc = "done" =>
    IF http.failures = <<>>
      THEN http.response = ("message" :> "Data updated successfully")
      ELSE /\ DOMAIN http.response = {"error"}
           /\ http.response["error"] # ""

(***************************************************************************)
(* Reconciliation: a quantity with a thousands separator                   *)
(***************************************************************************)
\* the comparisons of the diff that are about the part "A1 100"
AboutA1_100 == {k \in DOMAIN comparisons : comparisons[k].item_name = A1_100}

\* C22: when the snapshot is the row with part "A1 100" and quantity
\* "1,500" and the authoritative source does not have the item, the diff
\* yields exactly one comparison for it, with db_count 0, csv_count 1500
\* and difference 1500, and no comparison that is not about an item of the
\* authoritative source.
C22_ThousandsSeparatorCounted ==
  (/\ rpc = "notify"
   /\ snapshot = ThousandsSnapshot
   /\ A1_100 \notin DOMAIN db_quantities) =>
    /\ Cardinality(AboutA1_100) = 1
    /\ \A k \in AboutA1_100 :
         /\ comparisons[k].store_id = store.id
         /\ comparisons[k].db_count = 0
         /\ comparisons[k].csv_count = 1500
         /\ comparisons[k].difference = 1500
    /\ \A k \in DOMAIN comparisons \ AboutA1_100 :
         comparisons[k].item_name \in DOMAIN db_quantities
    /\ db_quantities = EmptyMap => Len(comparisons) = 1

\* the diff has run on that snapshot against an authoritative source
\* without any item and gave the one comparison
C22_Witness ==
  /\ rpc = "notify"
  /\ snapshot = ThousandsSnapshot
  /\ db_quantities = EmptyMap
  /\ Len(comparisons) = 1
  /\ comparisons[1].item_name = A1_100
  /\ comparisons[1].difference = 1500

(***************************************************************************)
(* Label synchroniser: retries, waits and the price query                  *)
(***************************************************************************)
\* the submission attempts of batch b, as positions of the timeline
Tries(b) == {k \in DOMAIN timeline :
               timeline[k].t = "try" /\ timeline[k].batch = b}

\* post_data_with_retry has returned or raised
CallOver == pc \in {"call_done", "call_raised"}

\* no batch is submitted more than 2 * max_retries times, a call of the
\* send primitive makes at most max_retries attempts, and a batch none of
\* whose submissions was accepted has been submitted 2 * max_retries times
\* and is recorded as failed when the call returns
BoundedSubmissions ==
  /\ \A b \in 1..Len(batches) :
       /\ Cardinality(Tries(b)) <= 2 * max_retries
       /\ \A k \in Tries(b) :
            timeline[k].call \in 1..2 /\ timeline[k].attempt \in 1..max_retries
  /\ pc = "call_done" =>
       \A b \in 1..Len(batches) :
         (Tries(b) # {} /\ ~BatchSucceeded(b)) =>
           /\ Cardinality(Tries(b)) = 2 * max_retries
           /\ \E k \in DOMAIN events : events[k] = Final(b, FALSE)
           /\ ~overall_success

\* C23: a batch whose submissions keep failing is submitted at most
\* 2 * max_retries times (max_retries attempts in each of at most two calls
\* of the send primitive) and is then recorded as failed, and every call
\* of post_data_with_retry ends, whatever the API answers.
C23_BoundedSubmissionsAndTermination == []BoundedSubmissions /\ <>CallOver

\* a call with the default max_retries has returned after a batch was
\* submitted six times without being accepted
C23_Witness ==
  /\ pc = "call_done"
  /\ max_retries = MAX_RETRIES
  /\ Cardinality(Tries(1)) = 2 * MAX_RETRIES
  /\ ~BatchSucceeded(1)
  /\ result = <<FALSE>>

\* the position in the timeline of the n-th submission attempt of batch b
TryAt(b, n) ==
  CHOOSE k \in Tries(b) : Cardinality({j \in Tries(b) : j <= k}) = n

\* the seconds waited at the positions lo..hi of the timeline
RECURSIVE Waited(_, _)
Waited(lo, hi) ==
  IF lo > hi THEN 0
  ELSE (IF timeline[hi].t = "sleep" THEN timeline[hi].seconds ELSE 0)
       + Waited(lo, hi - 1)

\* the seconds waited between the attempts n - 1 and n of batch b
WaitBefore(b, n) == Waited(TryAt(b, n - 1), TryAt(b, n))

RECURSIVE Pow2(_)
Pow2(n) == IF n = 0 THEN 1 ELSE 2 * Pow2(n - 1)

\* C24: across all the submission attempts of a batch, the delay waited
\* before attempt k (k >= 2) is initial_delay * 2^(k-2): initial_delay before
\* the second attempt, and the double of the previous delay before each
\* later one.
C24_AsStated ==
  \A b \in 1..Len(batches) :
    \A n \in 2..Cardinality(Tries(b)) :
      WaitBefore(b, n) = initial_delay * Pow2(n - 2)

\* the iteration of batch b is over
BatchOver(b) == \E k \in DOMAIN events :
                  events[k].t = "final" /\ events[k].batch = b

\* the inter-batch delay was waited at the end of the iteration of batch b
InterBatchWait(b) ==
  \E k \in DOMAIN timeline : timeline[k] = Slept(b, DELAY_BETWEEN_BATCHES, 313)

\* C25: once the iteration of a batch is over, whatever its outcome, the
\* inter-batch delay has been waited before the next batch is taken.
C25_AsStated ==
  \A b \in 1..Len(batches) : BatchOver(b) => InterBatchWait(b)

\* the request of the price query failed
PriceRequestFailed ==
  price_out \in {"network", "timeout", "http_status", "malformed"}

\* batch b has an item whose part number has no blank
HasItemWithoutSeparator(b) ==
  \E k \in DOMAIN batches[b] : batches[b][k] \in session_data.nosep

\* C26: with the price lookup enabled, a batch that has items without a
\* separator in the part number, whatever their number, is submitted once
\* the price request itself did not fail, and it is marked failed only when
\* its submissions failed.
C26_AsStated ==
  (/\ include_price
   /\ i >= 1
   /\ BatchOver(i)
   /\ HasItemWithoutSeparator(i)
   /\ ~PriceRequestFailed) =>
    /\ Tries(i) # {}
    /\ (\E k \in DOMAIN events : events[k] = Final(i, FALSE)) =>
         Cardinality(Tries(i)) = 2 * max_retries

\* the price query of batch b was made and gave no prices
PriceFailed(b) == \E k \in DOMAIN timeline : timeline[k] = Asked(b, FALSE)

\* what process_batch returns for a batch whose price query failed, and
\* the payload built from it: no data, and no payload
NothingMerged ==
  \A batch \in SeqsUpTo(BatchRows, MaxItems),
     prices \in SeqsUpTo(PriceRows, MaxItems) :
    /\ process_batch(include_price, batch, prices, PriceOk(price_out)) =
         [raised |-> "none", data |-> <<>>, success |-> FALSE,
          batch |-> batch]
    /\ payload_of(include_price, batch, prices, PriceOk(price_out)) =
         NoPayload

\* C27: when the request of the price query of a batch fails (network
\* error, timeout, HTTP error status, malformed response), process_batch
\* gives no data, the batch is marked failed and nothing of it is
\* submitted; the loop goes on, so that every batch has been dealt with
\* when the call returns, and the call returns failure.
C27_PriceFailureFailsTheBatchOnly ==
  /\ PriceRequestFailed =>
       /\ include_price
       /\ pc = "batch_loop"
       /\ PriceFailed(i)
       /\ ~overall_success
       /\ NothingMerged
  /\ \A b \in 1..Len(batches) :
       PriceFailed(b) =>
         /\ Tries(b) = {}
         /\ \A k \in DOMAIN events :
              events[k].batch = b => events[k] = Final(b, FALSE)
         /\ BatchOver(b)
  /\ pc \in {"post_return", "call_done"} =>
       \A b \in 1..Len(batches) : BatchOver(b)
  /\ pc = "call_done" =>
       ((\E b \in 1..Len(batches) : PriceFailed(b)) => result = <<FALSE>>)

\* the price request of the first batch failed, the second batch was
\* submitted and accepted, and the call returned failure
C27_Witness ==
  /\ pc = "call_done"
  /\ Len(batches) >= 2
  /\ PriceFailed(1)
  /\ Tries(1) = {}
  /\ BatchSucceeded(2)
  /\ result = <<FALSE>>

\* the price queries made for batch b, as positions of the timeline
PriceQueries(b) == {k \in DOMAIN timeline :
                      timeline[k].t = "price" /\ timeline[k].batch = b}

\* a call of the send primitive whose last attempt timed out returns only
\* when its max_retries attempts are used up, with a wait of
\* initial_delay * 2^(k-1) after its attempt k < max_retries
SubmissionTimeoutRetried ==
  (pc = "sent" /\ response.transport = "timeout") =>
    /\ attempt = max_retries
    /\ ~success
    /\ \A k \in Tries(i) :
         (timeline[k].call = call /\ timeline[k].attempt < max_retries) =>
           timeline[k + 1] =
             Slept(i, initial_delay * Pow2(timeline[k].attempt - 1), 346)

\* a batch whose price query timed out is recorded as failed only when the
\* query was made max_retries times
PriceTimeoutRetried ==
  (price_out = "timeout" /\ BatchOver(i)) =>
    Cardinality(PriceQueries(i)) = max_retries

\* C28: a timeout of the submission and a timeout of the price query are
\* retried, up to max_retries attempts with doubling waits, before the
\* batch is recorded as failed.
C28_AsStated == SubmissionTimeoutRetried /\ PriceTimeoutRetried

(***************************************************************************)
(* Label synchroniser: the retrieval of a file                             *)
(***************************************************************************)
\* the retrieval attempts, as positions of the timeline
Fetches == {k \in DOMAIN timeline : timeline[k].t = "fetch"}

\* process_csv_with_retry has returned
RetrievalOver == pc \in {"post_start", "file_loop"}

\* the attempt at position k of the timeline is followed by a wait of
\* INITIAL_DELAY * 2^(n-1) seconds, n being its number
WaitAfterFetch(k) ==
  /\ k + 1 \in DOMAIN timeline
  /\ timeline[k + 1].t = "sleep"
  /\ timeline[k + 1].seconds = INITIAL_DELAY * Pow2(timeline[k].attempt - 1)

\* at most MAX_RETRIES attempts, numbered in order; an attempt that is not
\* the last one made is followed by one wait, of INITIAL_DELAY doubled as
\* many times as attempts were made before it, and then by the next
\* attempt; while the call runs fewer than MAX_RETRIES attempts were made;
\* when it returned rows, the last attempt gave them and nothing was
\* recorded as failed, and else the failure of the file is recorded
BoundedRetrieval ==
  /\ Cardinality(Fetches) <= MAX_RETRIES
  /\ \A k \in Fetches :
       /\ timeline[k].attempt = Cardinality({j \in Fetches : j <= k})
       /\ timeline[k].attempt < Cardinality(Fetches) =>
            /\ WaitAfterFetch(k)
            /\ k + 2 \in Fetches
  /\ pc = "retrieve" => Cardinality(Fetches) < MAX_RETRIES
  /\ pc = "post_start" =>
       /\ timeline # <<>> /\ Last(timeline).t = "fetch"
       /\ session_data \in JobFiles
       /\ errors = <<>>
  /\ pc = "file_loop" =>
       /\ Len(errors) = 1
       /\ fileLog = <<[file |-> FILES_CONFIG[fileIdx].file,
                       store_id |-> FILES_CONFIG[fileIdx].store_id,
                       retrieved |-> FALSE, stored |-> FALSE]>>

C30_AsStated == scratch = {}

(***************************************************************************)
(* C31: the temporary files of the reconciliation                          *)
(***************************************************************************)
\* the processing of a store has ended: the loop is back at its head
\* after a store, or over
StoreEnded == storeIdx >= 1 /\ rpc \in {"store_loop", "run_done"}

\* C31 as stated: when the processing of a store ends, neither the
\* downloaded snapshot file nor the discrepancy report file of any store
\* processed so far exists.
C31_AsStated ==
  StoreEnded =>
    \A k \in 1..storeIdx :
      TempFile(stores[k]) \notin disk /\ ReportFile(stores[k]) \notin disk

(***************************************************************************)
(* C32: the report file of the resolver and the export file                *)
(***************************************************************************)
\* update_unknown_locations has returned or raised
UnknownRunEnded == resolver_pc \in {"run_done", "run_raised", "raised"}

\* export_store has returned
ExportRunEnded == exportRun.pc = "run_done"

\* C32 as stated: when a run of the resolver has ended the report file it
\* wrote does not exist, and when a run of the export has ended no export
\* file exists.
C32_AsStated ==
  /\ UnknownRunEnded => UnknownReportFile \notin disk
  /\ ExportRunEnded => exportRun.files = {}

(***************************************************************************)
(* C33: the file-transfer connections                                      *)
(***************************************************************************)
\* read_and_store_files has returned or raised
JobOver == pc \in {"job_done", "job_raised"}

\* C33 as stated: no connection is open once the operation that opened it
\* has returned or raised: the FTP connection of read_and_store_files, the
\* FTP client of download_store_file, the SFTP client of the export.
C33_AsStated ==
  /\ JobOver => ftp # "open"
  /\ rpc # "download" => ftp_client # "open"
  /\ exportRun.pc # "upload" => exportRun.sftp # "open"

(***************************************************************************)
(* C34: rows of a snapshot with the same part code                         *)
(***************************************************************************)
\* the normalized part code of a row (line 59)
CodeOf(row) == remove(strip(row.pn), "-")

\* the quantity get_csv_quantities takes from a row that is alone
QuantityOf(row) == Get(get_csv_quantities(<<row>>), CodeOf(row), 0)

\* the sum of the quantities of the rows of the given code
RECURSIVE SumOfRows(_, _)
SumOfRows(rows, code) ==
  IF rows = <<>> THEN 0
  ELSE SumOfRows(Tail(rows), code)
       + (IF CodeOf(Head(rows)) = code THEN QuantityOf(Head(rows)) ELSE 0)

\* C34 as stated: the snapshot count of a part code is the sum of the
\* quantities of all the rows of the snapshot that have that code.
C34_AsStated ==
  \A code \in DOMAIN csv_quantities :
    csv_quantities[code] = SumOfRows(snapshot, code)

(***************************************************************************)
(* C35: malformed and empty quantity texts                                 *)
(***************************************************************************)
\* the snapshot of the store has been parsed
Parsed == rpc \in {"diff", "notify", "send"}

\* the row has a quantity text that is empty or not a decimal numeral
Malformed(row) ==
  /\ ~row.qty_none
  /\ \/ strip(row.qty) = <<>>
     \/ ~int_float(remove(strip(row.qty), ",")).ok

\* row k is the first row of the snapshot with its part code
FirstOfCode(k) ==
  /\ CodeOf(snapshot[k]) # <<>>
  /\ \A j \in 1..(k - 1) : CodeOf(snapshot[j]) # CodeOf(snapshot[k])

\* C35 as stated: after the parse, every row that has a quantity text and
\* is the first of its part code has its code recorded, with the count 0
\* when the text is malformed or empty.
C35_AsStated ==
  Parsed =>
    \A k \in DOMAIN snapshot :
      (FirstOfCode(k) /\ ~snapshot[k].qty_none) =>
        /\ CodeOf(snapshot[k]) \in DOMAIN csv_quantities
        /\ Malformed(snapshot[k]) => csv_quantities[CodeOf(snapshot[k])] = 0

(***************************************************************************)
(* C36: phase 1 commits code by code                                       *)
(***************************************************************************)
\* the table when the current run started
RunStart == IF rerun THEN first_run.table ELSE locations0

\* phase 1 has raised inside its loop over the matched codes
RaisedInLoop == resolver_pc = "raised" /\ pending # {}

\* the table in which the records of the given codes are resolved as the
\* dictionary m says, and every other record is as in `table`
ResolvedFor(table, m, codes) ==
  [k \in DOMAIN table |->
     IF table[k].upc \in codes /\ k \in Targets(table, table[k].upc)
       THEN Resolved(table[k], m[table[k].upc])
       ELSE table[k]]

\* a record without the time of its last update
Untimed(row) == [row EXCEPT !.updated_at = "t"]

\* the tables an uninterrupted phase 1 can leave of `table`, the times of
\* the updates left aside
UninterruptedFinals(table) ==
  {[k \in DOMAIN table |-> Untimed(ResolvedFor(table, m, DOMAIN m)[k])] :
     m \in upc_to_item_maps(inventory, unknown_upcs(table))}

\* C36: when phase 1 raises while it processes a matched code, the records
\* of the codes processed before are resolved as committed and every other
\* record, those of the failing and of the remaining codes included, is as
\* it was when the run started; and when the run after a run whose phase 1
\* raised has completed phase 1, the table is one an uninterrupted phase 1
\* leaves of the original table (update times aside).
C36_CommitsCodeByCode ==
  /\ RaisedInLoop =>
       locations = ResolvedFor(RunStart, upc_to_item,
                               DOMAIN upc_to_item \ pending)
  /\ (rerun /\ first_run.ended = "raised" /\ resolver_pc = "done") =>
       [k \in DOMAIN locations |-> Untimed(locations[k])]
         \in UninterruptedFinals(locations0)

\* the first run raised after it had committed a code, and the run after
\* it has resolved what was left
C36_Witness ==
  /\ rerun
  /\ first_run.ended = "raised"
  /\ first_run.table # locations0
  /\ resolver_pc = "done"
  /\ locations # first_run.table
  /\ unknown_upcs(first_run.table) # {}

(***************************************************************************)
(* C37: no submission of a batch after an accepted one                     *)
(***************************************************************************)
\* the attempts of batch b made by the c-th call of the send primitive
TriesOfCall(b, c) == {k \in Tries(b) : timeline[k].call = c}

\* C37: an accepted submission of a batch is its last submission, so that
\* a batch is accepted at most once in a call of post_data_with_retry; and
\* the send primitive is called a second time for a batch only after its
\* first call made max_retries attempts, none of which was accepted.
C37_AcceptedSubmissionIsLast ==
  \A b \in 1..Len(batches) :
    /\ \A k \in Submissions(b) :
         events[k].ok => \A j \in Submissions(b) : j <= k
    /\ Cardinality({k \in Submissions(b) : events[k].ok}) <= 1
    /\ TriesOfCall(b, 2) # {} =>
         /\ Cardinality(TriesOfCall(b, 1)) = max_retries
         /\ Cardinality({k \in Submissions(b) : ~events[k].ok})
              >= max_retries

\* a call has returned in which a batch was accepted by the second call of
\* the send primitive, after a rejected attempt of that call
C37_Witness ==
  /\ pc = "call_done"
  /\ \E b \in 1..Len(batches) :
       /\ BatchSucceeded(b)
       /\ Cardinality(TriesOfCall(b, 2)) >= 2

\* the requests sent to the pricing API for batch b: the call of
\* get_processed_parts_prices sends one unless the batch has no part for
\* the query (lines 138-142)
PriceRequests(b) ==
  IF parts_list(batches[b], session_data.nosep) = <<>>
    THEN {}
    ELSE PriceQueries(b)

\* no item of a payload built without include_price has the field 'pp'
PayloadWithoutPrice ==
  (applied.op = "process_batch" /\ ~applied.include_price
     /\ applied.payload.built)
    => \A k \in DOMAIN applied.payload.f1 :
         "pp" \notin DOMAIN applied.payload.f1[k]

\* C38: without include_price no price query is ever made and no item of a
\* payload has the field 'pp'; with include_price exactly one price query
\* is sent for every batch that process_batch has dealt with
C38_AsStated ==
  /\ ~include_price =>
       /\ price_out = "none"
       /\ \A k \in DOMAIN timeline : timeline[k].t # "price"
  /\ PayloadWithoutPrice
  /\ include_price =>
       \A b \in DOMAIN batches :
         PriceQueries(b) # {} => Cardinality(PriceRequests(b)) = 1

\* the rows that were placeholders of a catalogued code when the two runs
\* started
MatchedAtStart ==
  {k \in DOMAIN pairRuns.table0 :
     \E c \in pairRuns.catalog : k \in Targets(pairRuns.table0, c.upc)}

\* the rows that were placeholders at the start and have a name now
ActuallyResolved ==
  {k \in DOMAIN pairRuns.table :
     pairRuns.table0[k].name = inconnu /\ pairRuns.table[k].name # inconnu}

BothReturned == \A r \in PairIds : pairRuns.run[r].pc = "done"

\* C39: of two interleaved runs, no row is written by more than one
\* committed update, a written row was a non-archived placeholder, and
\* when both runs have returned every matched row has been written once
\* and the two counts add up to the number of rows resolved
C39_AsStated ==
  /\ \A k \in DOMAIN pairRuns.writes :
       /\ Len(pairRuns.writes[k]) <= 1
       /\ pairRuns.writes[k] # <<>> =>
            /\ pairRuns.table0[k].name = inconnu
            /\ pairRuns.table0[k].is_archived = 0
  /\ BothReturned =>
       /\ \A k \in MatchedAtStart : Len(pairRuns.writes[k]) = 1
       /\ pairRuns.run[1].returned + pairRuns.run[2].returned
            = Cardinality(ActuallyResolved)

\* the last operation was a load that raised
LoadRaised == last.op = "load" /\ last.raised # "none"

====
